---- MODULE Spec2Model ----
(***************************************************************************)
(* A model of the jsonapi mapping engine: the single-pass field-builder    *)
(* encoder (Marshal, marshalOne, marshalMany, visitModelNode and the       *)
(* fieldbuilder methods) and the decoder (UnmarshalPayload, unmarshalNode  *)
(* and the nodeBuilder methods).                                           *)
(*                                                                         *)
(* Host values are records tagged by k; strings are sequences of           *)
(* one-character strings so that formatting and parsing of identifiers are *)
(* computed; type, attribute and relation names are atoms.                 *)
(***************************************************************************)
EXTENDS Integers, Sequences, FiniteSets, TLC

VARIABLES pc, op, models, idx, data, included, payload, err, doc, target, derr,
          calls, maps

vars == <<pc, op, models, idx, data, included, payload, err, doc, target, derr,
          calls, maps>>

-----------------------------------------------------------------------------
(* Bounds *)

\* longest to-many relation of an input object
MaxRel == 2
\* longest root sequence handed to Marshal
MaxRoots == 2
\* most nodes in the data of a document handed to UnmarshalManyPayload
MaxData == 2
\* most objects of an object graph whose traversal is followed step by step
MaxObjects == 2

-----------------------------------------------------------------------------
(* Annotation tokens and errors *)

annotationPrimary == "primary"
annotationClientID == "clientid"
annotationAttribute == "attr"
annotationRelation == "relation"
annotationExtends == "extends"
annotationOmitEmpty == "omitempty"
annotationISO8601 == "iso8601"

NoErr == "nil"
ErrInvalidLinks == "invalid links payload"
ErrBadJSONAPIStructTag == "Bad jsonapi struct tag format"
ErrBadJSONAPIID == "id should be either string, int(8,16,32,64) or uint(8,16,32,64)"
ErrUnexpectedType == "models should be a struct pointer or slice of struct pointers"
ErrEmbeddedPtrNotSet == "embedded pointer is nil"
\* a run-time panic that no function of the encoder recovers
Panic == "panic"

-----------------------------------------------------------------------------
(* Static types (reflect.Type) and field descriptors (reflect.StructField) *)

TString == [kind |-> "string"]
TInt(kind) == [kind |-> kind]
TBool == [kind |-> "bool"]
TTime == [kind |-> "Time"]
TPtr(t) == [kind |-> "ptr", elem |-> t]
TSlice(t) == [kind |-> "slice", elem |-> t]
TStruct(name) == [kind |-> "struct", name |-> name]

SignedKinds == {"int", "int8", "int16", "int32", "int64"}
UnsignedKinds == {"uint", "uint8", "uint16", "uint32", "uint64"}

\* tag is the annotation already split at annotationSeperator; <<>> is a
\* field without a jsonapi annotation
Field(name, tag, ty) == [name |-> name, tag |-> tag, ty |-> ty]

-----------------------------------------------------------------------------
(* Host values (reflect.Value) *)

VString(cs) == [k |-> "string", s |-> cs]
VInt(n) == [k |-> "int", n |-> n]
VBool(b) == [k |-> "bool", b |-> b]
\* a time.Time; zero is the zero instant (year 1), whose Unix second count
\* lies outside the integers TLC has, so it is carried as a flag
VTime(zero, unix, nsec) == [k |-> "time", zero |-> zero, unix |-> unix, nsec |-> nsec]
VNil == [k |-> "nil"]
VPtr(v) == [k |-> "ptr", v |-> v]
VStruct(T, F) == [k |-> "struct", T |-> T, F |-> F]
VSlice(isnil, e) == [k |-> "slice", isnil |-> isnil, e |-> e]
\* a slice of the named slice type T
VNamedSlice(T, e) == [k |-> "slice", isnil |-> FALSE, e |-> e, T |-> T]

ZeroTime == VTime(TRUE, 0, 0)

-----------------------------------------------------------------------------
(* The host types of the test-suite, as field descriptors in declaration   *)
(* order                                                                   *)

TypeDefs ==
  [ Comment |-> << Field("ID", <<"primary", "comments">>, TInt("int")),
                   Field("Body", <<"attr", "body">>, TString) >>,
    Post |-> << Field("ID", <<"primary", "posts">>, TInt("uint64")),
                Field("Title", <<"attr", "title">>, TString),
                Field("Comments", <<"relation", "comments">>,
                      TSlice(TPtr(TStruct("Comment")))),
                Field("LatestComment", <<"relation", "latest_comment">>,
                      TPtr(TStruct("Comment"))) >>,
    Blog |-> << Field("ID", <<"primary", "blogs">>, TInt("int")),
                Field("ClientID", <<"clientid">>, TString),
                Field("Title", <<"attr", "title">>, TString),
                Field("Posts", <<"relation", "posts">>,
                      TSlice(TPtr(TStruct("Post")))),
                Field("CurrentPost", <<"relation", "current_post">>,
                      TPtr(TStruct("Post"))),
                Field("CreatedAt", <<"attr", "created_at">>, TTime) >>,
    BlogOptionalPosts |->
             << Field("ID", <<"primary", "blogs">>, TInt("int")),
                Field("Title", <<"attr", "title">>, TString),
                Field("Posts", <<"relation", "posts", "omitempty">>,
                      TSlice(TPtr(TStruct("Post")))),
                Field("CurrentPost", <<"relation", "current_post", "omitempty">>,
                      TPtr(TStruct("Post"))) >>,
    Book |-> << Field("ID", <<"primary", "books">>, TInt("uint64")),
                Field("Author", <<"attr", "author">>, TString),
                Field("Title", <<"attr", "title", "omitempty">>, TString),
                Field("Pages", <<"attr", "pages", "omitempty">>, TPtr(TInt("uint"))),
                Field("PublishedAt", <<>>, TTime),
                Field("Tags", <<"attr", "tags">>, TSlice(TString)) >>,
    \* the book of the tags scenario, whose tags carry omitempty
    BookOmitTags |->
             << Field("ID", <<"primary", "books">>, TInt("uint64")),
                Field("Tags", <<"attr", "tags", "omitempty">>, TSlice(TString)) >>,
    Foo |-> << Field("ID", <<"primary", "foo">>, TString),
               Field("Title", <<"attr", "title">>, TString) >>,
    badIDStruct |-> << Field("ID", <<"primary", "cars">>, TPtr(TBool)) >>,
    Car |-> << Field("ID", <<"primary", "cars">>, TPtr(TString)),
               Field("Make", <<"attr", "make">>, TPtr(TString)) >>,
    Timestamp |->
             << Field("ID", <<"primary", "timestamps">>, TInt("int")),
                Field("Time", <<"attr", "timestamp", "iso8601">>, TTime),
                Field("At", <<"attr", "at", "omitempty">>, TTime),
                Field("Next", <<"attr", "next", "iso8601">>, TPtr(TTime)),
                Field("Last", <<"attr", "last", "omitempty">>, TPtr(TTime)) >>,
    Thing |-> << Field("ID", <<"primary", "things">>, TInt("int")),
                 Field("Fizz", <<"attr", "fizz", "omitempty">>, TString),
                 Field("Buzz", <<"attr", "buzz", "omitempty">>, TInt("int")) >>,
    Model |-> << Field("Thing", <<"extends", "models">>, TPtr(TStruct("Thing"))),
                 Field("Foo", <<"attr", "foo">>, TString),
                 Field("Buzz", <<"attr", "buzz", "omitempty">>, TInt("int")) >>,
    \* an object that refers to a post and to an object whose identifier
    \* cannot be encoded
    Holder |-> << Field("ID", <<"primary", "holders">>, TInt("int")),
                  Field("Post", <<"relation", "post">>, TPtr(TStruct("Post"))),
                  Field("Bad", <<"relation", "bad">>, TPtr(TStruct("badIDStruct"))) >>,
    \* types whose second field carries an annotation that is not well
    \* formed: a role without its name, a first token that is no role, and
    \* such a token alone
    ShortTag |-> << Field("ID", <<"primary", "short-tags">>, TInt("int")),
                    Field("Name", <<"attr">>, TString) >>,
    UnknownRole |-> << Field("ID", <<"primary", "unknown-roles">>, TInt("int")),
                       Field("Name", <<"bogus", "name">>, TString) >>,
    UnknownShort |-> << Field("ID", <<"primary", "unknown-shorts">>, TInt("int")),
                        Field("Name", <<"bogus">>, TString) >>,
    \* the comment of TestInvalidLinkable, whose links are not valid
    BadComment |-> << Field("ID", <<"primary", "bad-comment">>, TInt("uint64")),
                      Field("Body", <<"attr", "body">>, TString) >>,
    \* a comment whose links hook answers differently from one invocation
    \* to the next
    FlakyComment |-> << Field("ID", <<"primary", "flaky-comment">>, TInt("int")),
                        Field("Body", <<"attr", "body">>, TString) >>,
    \* an object that refers to comments with links hooks
    Thread |-> << Field("ID", <<"primary", "threads">>, TInt("int")),
                  Field("First", <<"relation", "first">>, TPtr(TStruct("BadComment"))),
                  Field("Last", <<"relation", "last">>, TPtr(TStruct("FlakyComment"))) >>,
    \* Model with the embedded field declared after the attribute it
    \* collides with
    ModelThingLast |->
              << Field("Foo", <<"attr", "foo">>, TString),
                 Field("Buzz", <<"attr", "buzz", "omitempty">>, TInt("int")),
                 Field("Thing", <<"extends", "models">>, TPtr(TStruct("Thing"))) >>,
    \* one identifier type per integer kind doPrimary accepts
    IDint |-> << Field("ID", <<"primary", "ids">>, TInt("int")) >>,
    IDint8 |-> << Field("ID", <<"primary", "ids">>, TInt("int8")) >>,
    IDint16 |-> << Field("ID", <<"primary", "ids">>, TInt("int16")) >>,
    IDint32 |-> << Field("ID", <<"primary", "ids">>, TInt("int32")) >>,
    IDint64 |-> << Field("ID", <<"primary", "ids">>, TInt("int64")) >>,
    IDuint |-> << Field("ID", <<"primary", "ids">>, TInt("uint")) >>,
    IDuint8 |-> << Field("ID", <<"primary", "ids">>, TInt("uint8")) >>,
    IDuint16 |-> << Field("ID", <<"primary", "ids">>, TInt("uint16")) >>,
    IDuint32 |-> << Field("ID", <<"primary", "ids">>, TInt("uint32")) >>,
    IDuint64 |-> << Field("ID", <<"primary", "ids">>, TInt("uint64")) >>,
    IDptrint |-> << Field("ID", <<"primary", "ids">>, TPtr(TInt("int"))) >> ]

TypeNames == DOMAIN TypeDefs

\* the links hooks (JSONAPILinks) of the types that have one: what the
\* first and the later invocations on an object answer, each member of the
\* links given by the kind of value it holds.  BlogList, BadList and
\* FlakyList are named slice types.
LinksHooks ==
  [ Blog |-> << [self |-> "string", comments |-> "link"] >>,
    BadComment |-> << [self |-> "list"] >>,
    FlakyComment |-> << [self |-> "string"], [self |-> "list"] >>,
    BlogList |-> << [self |-> "string"] >>,
    BadList |-> << [self |-> "list"] >>,
    FlakyList |-> << [self |-> "string"], [self |-> "list"] >> ]

\* the meta hooks (JSONAPIMeta) of the types that have one
MetaHooks ==
  [ Blog |-> [detail |-> "extra details regarding the blog"],
    BlogList |-> [count |-> "total"] ]

-----------------------------------------------------------------------------
(* Strings and number formatting *)

Digits == <<"0", "1", "2", "3", "4", "5", "6", "7", "8", "9">>

RECURSIVE FormatUint(_)
\* strconv.FormatUint(n, 10)
FormatUint(n) ==
  IF n < 10 THEN <<Digits[n + 1]>>
  ELSE FormatUint(n \div 10) \o <<Digits[(n % 10) + 1]>>

\* strconv.FormatInt(n, 10)
FormatInt(n) == IF n < 0 THEN <<"-">> \o FormatUint(0 - n) ELSE FormatUint(n)

RECURSIVE Join(_)
\* the Go string spelled by a sequence of characters
Join(cs) == IF cs = <<>> THEN "" ELSE Head(cs) \o Join(Tail(cs))

-----------------------------------------------------------------------------
(* Node, relationship linkage and payloads *)

\* a nil *Node
NilNode == [nil |-> TRUE]

\* a nil *Links and a nil *Meta
NoLinks == [none |-> TRUE]
NoMeta == [none |-> TRUE]

\* the kinds of value a member of a links object can hold: a string and a
\* Link object are what the format allows
LinkKinds == {"string", "link"}

\* Links.validate: every member is a string or a Link
validate(links) ==
  IF \A key \in DOMAIN links : links[key] \in LinkKinds THEN NoErr
  ELSE ErrInvalidLinks

NoAttrs == [a \in {} |-> VNil]
NoRels == [r \in {} |-> [many |-> FALSE, data |-> <<>>]]
NoIncluded == [key \in {} |-> NilNode]

\* new(Node); a nil map and an empty map are both the empty function, they
\* read alike and both are left out of the document
NewNode ==
  [Type |-> "", ID |-> <<>>, ClientID |-> <<>>,
   Attributes |-> NoAttrs, Relationships |-> NoRels,
   Links |-> NoLinks, Meta |-> NoMeta]

\* m[key] = val on a Go map
MapPut(m, key, val) == [x \in DOMAIN m \cup {key} |-> IF x = key THEN val ELSE m[x]]

\* &RelationshipOneNode{Data: n}; data is <<>> for Data: nil
RelationshipOneNode(d) == [many |-> FALSE, data |-> d]
\* &RelationshipManyNode{Data: ns}
RelationshipManyNode(ns) == [many |-> TRUE, data |-> ns]

OnePayload(node, inc) ==
  [kind |-> "one", Data |-> <<node>>, Included |-> inc,
   Links |-> NoLinks, Meta |-> NoMeta]
ManyPayload(nodes, inc) ==
  [kind |-> "many", Data |-> nodes, Included |-> inc,
   Links |-> NoLinks, Meta |-> NoMeta]
NoPayload ==
  [kind |-> "none", Data |-> <<>>, Included |-> <<>>,
   Links |-> NoLinks, Meta |-> NoMeta]

\* toShallowNode that forgets to strip the node
toShallowNode_whole(node) == node

toShallowNode(node) == [NewNode EXCEPT !.ID = node.ID, !.Type = node.Type]

\* fmt.Sprintf("%s,%s", n.Type, n.ID)
IncludedKey(n) == n.Type \o "," \o Join(n.ID)

\* appendIncluded that overwrites the entry of a key the map already has
appendIncluded_overwriting(m, n) ==
  IF n = NilNode THEN [inc |-> m, err |-> Panic]
  ELSE [inc |-> MapPut(m, IncludedKey(n), n), err |-> NoErr]

\* appendIncluded keyed by the whole node instead of its type and id
appendIncluded_keyedByNode(m, n) ==
  IF n = NilNode THEN [inc |-> m, err |-> Panic]
  ELSE LET key == IncludedKey(n) \o "," \o ToString(n.Attributes) IN
       IF key \in DOMAIN m THEN [inc |-> m, err |-> NoErr]
       ELSE [inc |-> MapPut(m, key, n), err |-> NoErr]

\* appendIncluded for one node: the map after the call, or a panic when the
\* node is nil
appendIncluded(m, n) ==
  IF n = NilNode THEN [inc |-> m, err |-> Panic]
  ELSE LET key == IncludedKey(n) IN
       IF key \in DOMAIN m THEN [inc |-> m, err |-> NoErr]
       ELSE [inc |-> MapPut(m, key, n), err |-> NoErr]

-----------------------------------------------------------------------------
(* Encoder: the fieldbuilder methods *)

RECURSIVE ZeroValue(_)
\* reflect.Zero(t)
ZeroValue(ty) ==
  CASE ty.kind = "string" -> VString(<<>>)
    [] ty.kind = "bool" -> VBool(FALSE)
    [] ty.kind = "Time" -> ZeroTime
    [] ty.kind = "ptr" -> VNil
    [] ty.kind = "slice" -> VSlice(TRUE, <<>>)
    [] ty.kind = "struct" ->
         VStruct(ty.name, [i \in 1..Len(TypeDefs[ty.name]) |->
                             ZeroValue(TypeDefs[ty.name][i].ty)])
    [] OTHER -> VInt(0)

\* whether == on two interface values of this dynamic type is defined; on a
\* slice it is a run-time panic
Comparable(ty) == ty.kind # "slice"

\* some argument after the name, args[2:] in the source, is tok
HasModifier(args, tok) == \E j \in 3..Len(args) : args[j] = tok

\* t.UTC().Format(iso8601TimeFormat): a string naming the instant to the
\* second
FormatISO8601(t) == [k |-> "iso8601", zero |-> t.zero, unix |-> t.unix]
\* t.Unix(): the int64 second count of the instant
Unix(t) == [k |-> "unix", zero |-> t.zero, unix |-> t.unix]

\* a zero test that never finds the zero time
IsZero_never(t) == FALSE

IsZero(t) == t.zero

\* fieldbuilder.doPrimary: the node after the call and the error
doPrimary(node, args, ty, fv) ==
  LET isPtr == ty.kind = "ptr"
      kind == IF isPtr THEN ty.elem.kind ELSE ty.kind
      \* reflect.Indirect of a nil pointer is the zero Value and its
      \* Interface() panics
      invalid == isPtr /\ fv = VNil
      v == IF isPtr /\ fv # VNil THEN fv.v ELSE fv
      setType(n) == IF n.Type = "" THEN [n EXCEPT !.Type = args[2]] ELSE n
  IN  IF kind = "string" THEN
        IF invalid THEN [node |-> node, err |-> Panic]
        ELSE [node |-> setType([node EXCEPT !.ID = v.s]), err |-> NoErr]
      ELSE IF kind \in SignedKinds THEN
        IF invalid THEN [node |-> node, err |-> Panic]
        ELSE [node |-> setType([node EXCEPT !.ID = FormatInt(v.n)]), err |-> NoErr]
      ELSE IF kind \in UnsignedKinds THEN
        IF invalid THEN [node |-> node, err |-> Panic]
        ELSE [node |-> setType([node EXCEPT !.ID = FormatUint(v.n)]), err |-> NoErr]
      ELSE [node |-> node, err |-> ErrBadJSONAPIID]

\* fieldbuilder.doAttribute: the node after the call; the only failure is the
\* panic of comparing two slices
doAttribute(node, args, ty, fv) ==
  LET omitEmpty == HasModifier(args, annotationOmitEmpty)
      iso8601 == HasModifier(args, annotationISO8601)
      set(val) == [node |-> [node EXCEPT !.Attributes = MapPut(@, args[2], val)],
                   err |-> NoErr]
      skip == [node |-> node, err |-> NoErr]
  IN  IF ty = TTime THEN
        IF IsZero(fv) THEN skip
        ELSE IF iso8601 THEN set(FormatISO8601(fv)) ELSE set(Unix(fv))
      ELSE IF ty = TPtr(TTime) THEN
        IF fv = VNil THEN
          IF omitEmpty THEN skip ELSE set(VNil)
        ELSE IF IsZero(fv.v) /\ omitEmpty THEN skip
        ELSE IF iso8601 THEN set(FormatISO8601(fv.v)) ELSE set(Unix(fv.v))
      ELSE
        IF omitEmpty /\ ~Comparable(ty) THEN [node |-> node, err |-> Panic]
        ELSE IF omitEmpty /\ fv = ZeroValue(ty) THEN skip
        ELSE set(fv)

-----------------------------------------------------------------------------
(* Encoder: the traversal.  Every operator returns the node it built, the   *)
(* included map as the call left it, and the error.                         *)

Res(node, inc, e) == [node |-> node, inc |-> inc, err |-> e]

RECURSIVE visitModelNode(_, _, _)
RECURSIVE visitFields(_, _, _, _, _)
RECURSIVE visitModelNodeRelationships(_, _, _, _, _)
RECURSIVE appendAll(_, _, _)

\* a loop of doRelation that stops after the first node of the linkage
appendAll_firstOnly(inc, nodes, i) ==
  IF \E k \in i..Len(nodes) : nodes[k] = NilNode THEN [inc |-> inc, err |-> Panic]
  ELSE IF i > Len(nodes) THEN [inc |-> inc, err |-> NoErr]
  ELSE appendIncluded(inc, nodes[i])

\* the loop of doRelation over relationship.Data: appendIncluded for each
\* node, from position i on
appendAll(inc, nodes, i) ==
  IF i > Len(nodes) THEN [inc |-> inc, err |-> NoErr]
  ELSE LET a == appendIncluded(inc, nodes[i]) IN
       IF a.err # NoErr THEN a ELSE appendAll(a.inc, nodes, i + 1)

\* a doExtends that takes an embedded nil pointer for nothing to merge
doExtends_nilSkipped(node, args, fv, inc, sideload) ==
  LET r == visitModelNode(fv, inc, sideload) IN
  IF r.err # NoErr THEN Res(NilNode, r.inc, r.err)
  ELSE IF r.node = NilNode THEN Res([node EXCEPT !.Type = args[2]], r.inc, NoErr)
  ELSE LET n == r.node
           withID == IF n.ID # <<>> THEN [node EXCEPT !.ID = n.ID] ELSE node
           merged == [k \in DOMAIN withID.Attributes \cup DOMAIN n.Attributes |->
                        IF k \in DOMAIN n.Attributes THEN n.Attributes[k]
                        ELSE withID.Attributes[k]]
       IN  Res([withID EXCEPT !.Attributes = merged, !.Type = args[2]], r.inc, NoErr)

\* fieldbuilder.doExtends
doExtends(node, args, fv, inc, sideload) ==
  LET r == visitModelNode(fv, inc, sideload) IN
  IF r.err # NoErr THEN Res(NilNode, r.inc, r.err)
  ELSE IF r.node = NilNode THEN Res(NilNode, r.inc, ErrEmbeddedPtrNotSet)
  ELSE LET n == r.node
           withID == IF n.ID # <<>> THEN [node EXCEPT !.ID = n.ID] ELSE node
           merged == [k \in DOMAIN withID.Attributes \cup DOMAIN n.Attributes |->
                        IF k \in DOMAIN n.Attributes THEN n.Attributes[k]
                        ELSE withID.Attributes[k]]
       IN  Res([withID EXCEPT !.Attributes = merged, !.Type = args[2]], r.inc, NoErr)

\* the omitEmpty flag set whatever the annotation says
relationOmitEmpty_always(args) == TRUE

\* the omitEmpty flag never set
relationOmitEmpty_never(args) == FALSE

\* the omitEmpty flag of doRelation: the third token, and no other, can set
\* it
relationOmitEmpty(args) == Len(args) > 2 /\ args[3] = annotationOmitEmpty

\* fieldbuilder.doRelation
doRelation(node, args, ty, fv, inc, sideload) ==
  LET omitEmpty == relationOmitEmpty(args)
      isSlice == ty.kind = "slice"
      set(n, link) == [n EXCEPT !.Relationships = MapPut(@, args[2], link)]
  IN  \* Value.IsNil panics on a field that is neither a slice nor a pointer
      IF ~isSlice /\ ty.kind # "ptr" THEN Res(NilNode, inc, Panic)
      ELSE IF omitEmpty /\ ((isSlice /\ Len(fv.e) < 1) \/ (~isSlice /\ fv = VNil))
      THEN Res(node, inc, NoErr)
      ELSE IF isSlice THEN
        LET rel == visitModelNodeRelationships(fv.e, 1, <<>>, inc, sideload) IN
        IF rel.err # NoErr THEN Res(NilNode, rel.inc, rel.err)
        ELSE IF sideload THEN
          LET a == appendAll(rel.inc, rel.nodes, 1) IN
          IF a.err # NoErr THEN Res(NilNode, a.inc, a.err)
          ELSE Res(set(node, RelationshipManyNode(
                     [i \in 1..Len(rel.nodes) |-> toShallowNode(rel.nodes[i])])),
                   a.inc, NoErr)
        ELSE Res(set(node, RelationshipManyNode(rel.nodes)), rel.inc, NoErr)
      ELSE
        IF fv = VNil THEN Res(set(node, RelationshipOneNode(<<>>)), inc, NoErr)
        ELSE
          LET r == visitModelNode(fv, inc, sideload) IN
          IF r.err # NoErr THEN Res(NilNode, r.inc, r.err)
          ELSE IF sideload THEN
            LET a == appendIncluded(r.inc, r.node) IN
            IF a.err # NoErr THEN Res(NilNode, a.inc, a.err)
            ELSE Res(set(node, RelationshipOneNode(<<toShallowNode(r.node)>>)),
                     a.inc, NoErr)
          ELSE Res(set(node, RelationshipOneNode(<<r.node>>)), r.inc, NoErr)

\* visitModelNodeRelationships: the loop from element i on, nodes being the
\* nodes built so far
visitModelNodeRelationships(elems, i, nodes, inc, sideload) ==
  IF i > Len(elems) THEN [nodes |-> nodes, inc |-> inc, err |-> NoErr]
  ELSE LET r == visitModelNode(elems[i], inc, sideload) IN
       IF r.err # NoErr THEN [nodes |-> <<>>, inc |-> r.inc, err |-> r.err]
       ELSE visitModelNodeRelationships(elems, i + 1, Append(nodes, r.node),
                                        r.inc, sideload)

\* model.(Linkable) and model.(Metable): the dynamic type has the hook
Linkable(T) == T \in DOMAIN LinksHooks
Metable(T) == T \in DOMAIN MetaHooks

\* the answer of the n-th invocation of the links hook on a value of type T
JSONAPILinks(T, n) ==
  LinksHooks[T][IF n > Len(LinksHooks[T]) THEN Len(LinksHooks[T]) ELSE n]

JSONAPIMeta(T) == MetaHooks[T]

\* the links attached to what has type T after the first answer of its hook
\* passed validate: the answer of a second invocation
attachedLinks(T) == IF Linkable(T) THEN JSONAPILinks(T, 2) ELSE NoLinks

attachedMeta(T) == IF Metable(T) THEN JSONAPIMeta(T) ELSE NoMeta

\* the end of visitModelNode, after the loop over the fields
visitModelNodeHooks(T, node, inc) ==
  IF Linkable(T) /\ validate(JSONAPILinks(T, 1)) # NoErr
  THEN Res(NilNode, inc, validate(JSONAPILinks(T, 1)))
  ELSE Res([node EXCEPT !.Links = attachedLinks(T), !.Meta = attachedMeta(T)],
           inc, NoErr)

\* the loop of visitModelNode over the fields of obj, from field i on
visitFields(obj, i, node, inc, sideload) ==
  LET fields == TypeDefs[obj.T] IN
  IF i > Len(fields) THEN visitModelNodeHooks(obj.T, node, inc)
  ELSE
    LET args == fields[i].tag
        ty == fields[i].ty
        fv == obj.F[i]
    IN
    IF args = <<>> THEN visitFields(obj, i + 1, node, inc, sideload)
    ELSE IF (args[1] = annotationClientID /\ Len(args) # 1)
            \/ (args[1] # annotationClientID /\ Len(args) < 2)
    THEN Res(NilNode, inc, ErrBadJSONAPIStructTag)
    ELSE IF args[1] = annotationPrimary THEN
      LET r == doPrimary(node, args, ty, fv) IN
      IF r.err # NoErr THEN Res(r.node, inc, r.err)
      ELSE visitFields(obj, i + 1, r.node, inc, sideload)
    ELSE IF args[1] = annotationClientID THEN
      \* Value.String() of a value that is no string is not empty
      LET clientID == IF fv.k = "string" THEN fv.s ELSE <<"<", ">">> IN
      visitFields(obj, i + 1,
                  IF clientID # <<>> THEN [node EXCEPT !.ClientID = clientID]
                  ELSE node,
                  inc, sideload)
    ELSE IF args[1] = annotationExtends THEN
      LET r == doExtends(node, args, fv, inc, sideload) IN
      IF r.err # NoErr THEN Res(NilNode, r.inc, r.err)
      ELSE visitFields(obj, i + 1, r.node, r.inc, sideload)
    ELSE IF args[1] = annotationAttribute THEN
      LET r == doAttribute(node, args, ty, fv) IN
      IF r.err # NoErr THEN Res(NilNode, inc, r.err)
      ELSE visitFields(obj, i + 1, r.node, inc, sideload)
    ELSE IF args[1] = annotationRelation THEN
      LET r == doRelation(node, args, ty, fv, inc, sideload) IN
      IF r.err # NoErr THEN Res(NilNode, r.inc, r.err)
      ELSE visitFields(obj, i + 1, r.node, r.inc, sideload)
    ELSE Res(NilNode, inc, ErrBadJSONAPIStructTag)

\* visitModelNode
visitModelNode(model, inc, sideload) ==
  \* Value.Elem panics on anything but a pointer (or an interface)
  IF model.k \notin {"ptr", "nil"} THEN Res(NilNode, inc, Panic)
  ELSE IF model = VNil THEN Res(NilNode, inc, NoErr)
  \* Value.NumField panics when the pointer is not to a struct
  ELSE IF model.v.k # "struct" THEN Res(NilNode, inc, Panic)
  ELSE visitFields(model.v, 1, NewNode, inc, sideload)

-----------------------------------------------------------------------------
(* Encoder: the entry points *)

\* the orders in which the keys of a Go map can be iterated
Orders(m) ==
  {o \in [1..Cardinality(DOMAIN m) -> DOMAIN m] :
     \A i, j \in 1..Cardinality(DOMAIN m) : o[i] = o[j] => i = j}

\* nodeMapValues that returns an empty slice whatever the map holds
nodeMapValues_none(m) == {<<>>}

\* nodeMapValues that stops after the first value the iteration yields
nodeMapValues_firstOnly(m) ==
  IF DOMAIN m = {} THEN {<<>>} ELSE {<<m[k]>> : k \in DOMAIN m}

\* nodeMapValues: the slices the call can return, one per iteration order
nodeMapValues(m) == {[i \in 1..Len(o) |-> m[o[i]]] : o \in Orders(m)}

Outcome(p, inc, e) == [payload |-> p, inc |-> inc, err |-> e]

\* marshalOne: the outcomes the call can have, with the included map as the
\* call left it
marshalOne(model) ==
  LET r == visitModelNode(model, NoIncluded, TRUE) IN
  IF r.err # NoErr THEN {Outcome(NoPayload, r.inc, r.err)}
  ELSE {Outcome(OnePayload(r.node, vals), r.inc, NoErr) : vals \in nodeMapValues(r.inc)}

\* the dynamic type of a slice: the name of its type when it is a named
\* slice type
TypeOfSlice(v) == IF "T" \in DOMAIN v THEN v.T ELSE "[]interface {}"

\* the end of the slice case of Marshal, after marshalMany returned p
MarshalHooks(T, p) ==
  IF Linkable(T) /\ validate(JSONAPILinks(T, 1)) # NoErr
  THEN Outcome(NoPayload, NoIncluded, validate(JSONAPILinks(T, 1)))
  ELSE Outcome([p EXCEPT !.Links = attachedLinks(T), !.Meta = attachedMeta(T)],
               NoIncluded, NoErr)

\* payload.clearIncluded()
clearIncluded(p) == [p EXCEPT !.Included = <<>>]

\* Marshal on an argument that is not a slice
MarshalOne(m) ==
  IF m.k = "ptr" /\ m.v.k = "struct" THEN marshalOne(m)
  ELSE {Outcome(NoPayload, NoIncluded, ErrUnexpectedType)}

\* the body of MarshalOnePayloadEmbedded up to the payload it encodes
MarshalOnePayloadEmbedded(model) ==
  LET r == visitModelNode(model, NoIncluded, FALSE) IN
  IF r.err # NoErr THEN Outcome(NoPayload, r.inc, r.err)
  ELSE Outcome(OnePayload(r.node, <<>>), r.inc, NoErr)

-----------------------------------------------------------------------------
(* The document as written and read back: what json.Unmarshal into an       *)
(* interface{} yields for what json.Marshal wrote                           *)

\* a JSON number, read back as a float64; yearone marks the second count of
\* the zero time
Float64(n) == [k |-> "float64", yearone |-> FALSE, n |-> n]

RECURSIVE jsonValue(_)
jsonValue(v) ==
  CASE v.k = "int" -> Float64(v.n)
    [] v.k = "unix" -> [k |-> "float64", yearone |-> v.zero, n |-> v.unix]
    [] v.k = "ptr" -> jsonValue(v.v)
    [] v.k = "slice" ->
         IF v.isnil THEN VNil
         ELSE [k |-> "list", e |-> [i \in 1..Len(v.e) |-> jsonValue(v.e[i])]]
    [] OTHER -> v

RECURSIVE jsonNode(_)
\* a node of the document; its attribute values are the values read back
jsonNode(n) ==
  IF n = NilNode THEN NilNode
  ELSE [n EXCEPT
          !.Attributes = [a \in DOMAIN n.Attributes |-> jsonValue(n.Attributes[a])],
          !.Relationships =
             [r \in DOMAIN n.Relationships |->
                [many |-> n.Relationships[r].many,
                 data |-> [i \in 1..Len(n.Relationships[r].data) |->
                             jsonNode(n.Relationships[r].data[i])]]]]

\* the payload json.NewDecoder(in).Decode fills from what
\* json.NewEncoder(w).Encode(p) wrote
jsonPayload(p) ==
  [p EXCEPT
     !.Data = [i \in 1..Len(p.Data) |-> jsonNode(p.Data[i])],
     !.Included = [i \in 1..Len(p.Included) |-> jsonNode(p.Included[i])]]

-----------------------------------------------------------------------------
(* Parsing of identifiers *)

DigitChars == {Digits[i] : i \in 1..Len(Digits)}
DigitValue(c) == CHOOSE d \in 0..9 : Digits[d + 1] = c

RECURSIVE DecimalValue(_)
\* the number a sequence of digits spells
DecimalValue(cs) ==
  IF cs = <<>> THEN 0
  ELSE 10 * DecimalValue(SubSeq(cs, 1, Len(cs) - 1)) + DigitValue(cs[Len(cs)])

AllDigits(cs) == \A i \in 1..Len(cs) : cs[i] \in DigitChars

\* strconv.ParseFloat(s, 64) on a decimal numeral: an optional sign, digits,
\* and an optional fraction; trunc is the value truncated toward zero, as the
\* conversions to the integer kinds truncate it
ParseFloat(s) ==
  LET signed == s # <<>> /\ s[1] \in {"-", "+"}
      body == IF signed THEN Tail(s) ELSE s
      dots == {i \in 1..Len(body) : body[i] = "."}
      whole == IF dots = {} THEN body
               ELSE SubSeq(body, 1, (CHOOSE i \in dots : TRUE) - 1)
      frac == IF dots = {} THEN <<>>
              ELSE SubSeq(body, (CHOOSE i \in dots : TRUE) + 1, Len(body))
      ok == /\ Cardinality(dots) <= 1
            /\ AllDigits(whole) /\ AllDigits(frac)
            /\ Len(whole) + Len(frac) > 0
      magnitude == DecimalValue(whole)
  IN  IF ~ok THEN [ok |-> FALSE, trunc |-> 0]
      ELSE [ok |-> TRUE,
            trunc |-> IF signed /\ s[1] = "-" THEN 0 - magnitude ELSE magnitude]

RECURSIVE Pow2(_)
Pow2(w) == IF w = 0 THEN 1 ELSE 2 * Pow2(w - 1)

\* the bits of the 8 and 16 bit kinds; the values of the model all lie in
\* the range of the signed kinds of 32 bits and more
NarrowBits(kind) == IF kind \in {"int8", "uint8"} THEN 8 ELSE 16

\* the conversion of the float x to an integer kind.  Go leaves the result
\* of converting a value the kind cannot represent to the implementation:
\* arch names what the build does, wrap around or saturate
Narrow(kind, x, arch) ==
  IF kind \in {"int8", "int16"} THEN
    LET half == Pow2(NarrowBits(kind) - 1) IN
    IF x >= 0 - half /\ x < half THEN x
    ELSE IF arch = "wrap" THEN ((x + half) % (2 * half)) - half
    ELSE IF x < 0 THEN 0 - half ELSE half - 1
  ELSE IF kind \in {"uint8", "uint16"} THEN
    LET top == Pow2(NarrowBits(kind)) IN
    IF x >= 0 /\ x < top THEN x
    ELSE IF arch = "wrap" THEN x % top
    ELSE IF x < 0 THEN 0 ELSE top - 1
  ELSE IF kind \in SignedKinds THEN x
  \* an unsigned kind of 32 bits or more; a negative x has no image here
  ELSE CASE x >= 0 -> x

-----------------------------------------------------------------------------
(* Decoder *)

\* the role of an embedded field as the decoder knows it; unmarshalNode has
\* a case for it that does nothing
annotationEmbedded == "extends"

ErrInvalidTime == "Only numbers can be parsed as dates, unix timestamps"
ErrInvalidISO8601 == "Only strings can be parsed as dates, ISO8601 timestamps"
ErrUnknownFieldNumberType == "The struct field was not of a known number type"
ErrUnsupportedPtrType == "Pointer type in struct is not supported"
ErrInvalidType == "Invalid type provided"

\* fmt.Errorf(unsuportedStructTagMsg, annotation)
UnsupportedStructTag(annotation) == "Unsupported jsonapi tag annotation, " \o annotation

\* the error of doPrimary for a node of another type
TypeMismatch(nodeType, declared) ==
  "Trying to Unmarshal an object of type \"" \o nodeType \o "\", but \""
  \o declared \o "\" does not match"

RECURSIVE TypeString(_)
\* model.Type() as %v prints it
TypeString(v) ==
  CASE v.k = "ptr" -> "*" \o TypeString(v.v)
    [] v.k = "struct" -> "jsonapi." \o v.T
    [] v.k = "time" -> "time.Time"
    [] OTHER -> v.k

\* the error the deferred recover of unmarshalNode turns a panic into
NotRepresentation(model) ==
  "data is not a jsonapi representation of '" \o TypeString(model) \o "'"

\* reflect.New(t)
New(ty) == VPtr(ZeroValue(ty))

\* assign of a pointer to the number n to a field of type ty
assign(ty, n) == IF ty.kind = "ptr" THEN VPtr(VInt(n)) ELSE VInt(n)

\* reflect.Kind of a value read from the document
IsString(val) == val.k \in {"string", "iso8601"}

Changed(fv, e) == [fv |-> fv, err |-> e]

\* the type check of nodeBuilder.doPrimary
checkType(node, args) == node.Type = args[2]

\* nodeBuilder.doPrimary: the field after the call and the error
nodeBuilder_doPrimary(node, args, ty, fv, arch) ==
  LET kind == IF ty.kind = "ptr" THEN ty.elem.kind ELSE ty.kind IN
  IF node.ID = <<>> THEN Changed(fv, NoErr)
  ELSE IF ~checkType(node, args) THEN Changed(fv, TypeMismatch(node.Type, args[2]))
  ELSE IF kind = "string" THEN
    \* assign sets the string itself, which a field of type *string does
    \* not take: Value.Set panics
    IF ty.kind = "ptr" THEN Changed(fv, Panic)
    ELSE Changed(VString(node.ID), NoErr)
  ELSE LET f == ParseFloat(node.ID) IN
       IF ~f.ok THEN Changed(fv, ErrBadJSONAPIID)
       ELSE IF kind \in SignedKinds \cup UnsignedKinds
       THEN Changed(assign(ty, Narrow(kind, f.trunc, arch)), NoErr)
       ELSE Changed(fv, ErrBadJSONAPIID)

\* the time a timestamp attribute of the document names: a string in the
\* ISO 8601 layout under iso8601, a second count otherwise
decodeTime(val, iso8601) ==
  IF iso8601 THEN
    IF val.k = "iso8601" THEN Changed(VTime(val.zero, val.unix, 0), NoErr)
    ELSE Changed(VNil, ErrInvalidISO8601)
  ELSE IF val.k = "float64" THEN Changed(VTime(val.yearone, val.n, 0), NoErr)
  ELSE Changed(VNil, ErrInvalidTime)

\* nodeBuilder.doAttribute
nodeBuilder_doAttribute(node, args, ty, fv, arch) ==
  LET iso8601 == HasModifier(args, annotationISO8601)
      val == IF args[2] \in DOMAIN node.Attributes THEN node.Attributes[args[2]]
             ELSE VNil
      kind == IF ty.kind = "ptr" THEN ty.elem.kind ELSE ty.kind
  IN
  IF val = VNil THEN Changed(fv, NoErr)
  ELSE IF ty = TTime THEN
    LET t == decodeTime(val, iso8601) IN
    IF t.err # NoErr THEN Changed(fv, t.err) ELSE t
  ELSE IF ty = TSlice(TString) THEN
    \* v.Len() panics on a number or a boolean, and the assertion on an
    \* element that is no string
    IF val.k = "list" /\ \A i \in 1..Len(val.e) : IsString(val.e[i])
    THEN Changed(VSlice(FALSE, val.e), NoErr)
    ELSE IF IsString(val) /\ val.k = "string" /\ val.s = <<>>
    THEN Changed(VSlice(FALSE, <<>>), NoErr)
    ELSE Changed(fv, Panic)
  ELSE IF ty = TPtr(TTime) THEN
    LET t == decodeTime(val, iso8601) IN
    IF t.err # NoErr THEN Changed(fv, t.err) ELSE Changed(VPtr(t.fv), NoErr)
  ELSE IF val.k = "float64" THEN
    IF kind \in SignedKinds \cup UnsignedKinds
    THEN Changed(assign(ty, Narrow(kind, val.n, arch)), NoErr)
    ELSE Changed(fv, ErrUnknownFieldNumberType)
  ELSE IF ty.kind = "ptr" THEN
    IF IsString(val) THEN
      IF ty = TPtr(TString) THEN Changed(VPtr(val), NoErr)
      ELSE Changed(fv, ErrUnsupportedPtrType)
    ELSE IF val.k = "bool" THEN
      IF ty = TPtr(TBool) THEN Changed(VPtr(val), NoErr)
      ELSE Changed(fv, ErrUnsupportedPtrType)
    ELSE Changed(fv, ErrUnsupportedPtrType)
  ELSE IF IsString(val) THEN
    IF ty.kind = "string" THEN Changed(val, NoErr) ELSE Changed(fv, ErrInvalidType)
  ELSE IF val.k = "bool" THEN
    IF ty.kind = "bool" THEN Changed(val, NoErr) ELSE Changed(fv, ErrInvalidType)
  \* a []interface{}: of the kind of every slice field and of the type of
  \* none, so that Value.Set panics
  ELSE IF ty.kind = "slice" THEN Changed(fv, Panic)
  ELSE Changed(fv, ErrInvalidType)

\* a fullNode that never looks into included
fullNode_inline(n, inc) == n

\* fullNode; a nil map and an empty one read alike
fullNode(n, inc) == IF IncludedKey(n) \in DOMAIN inc THEN inc[IncludedKey(n)] ELSE n

RECURSIVE unmarshalNode(_, _, _, _)
RECURSIVE unmarshalFields(_, _, _, _, _)
RECURSIVE unmarshalMany(_, _, _, _, _, _)

\* the loop of the to-many branch of nodeBuilder.doRelation, from element i
\* of data on
unmarshalMany(nodes, i, ms, ty, inc, arch) ==
  IF i > Len(nodes) THEN [models |-> ms, err |-> NoErr]
  \* Type().Elem().Elem() of a slice whose elements are no pointers
  ELSE IF ty.elem.kind # "ptr" THEN [models |-> ms, err |-> Panic]
  \* fullNode dereferences the node
  ELSE IF nodes[i] = NilNode THEN [models |-> ms, err |-> Panic]
  ELSE LET r == unmarshalNode(fullNode(nodes[i], inc), New(ty.elem.elem), inc, arch) IN
       IF r.err # NoErr THEN [models |-> ms, err |-> r.err]
       ELSE unmarshalMany(nodes, i + 1, Append(ms, r.model), ty, inc, arch)

\* a doRelation whose to-many branch appends to the sequence the field holds
nodeBuilder_doRelation_appending(node, args, ty, fv, inc, arch) ==
  IF args[2] \notin DOMAIN node.Relationships THEN Changed(fv, NoErr)
  ELSE
    LET link == node.Relationships[args[2]] IN
    IF ty.kind = "slice" THEN
      LET nodes == IF link.many THEN link.data ELSE <<>>
          r == unmarshalMany(nodes, 1, fv.e, ty, inc, arch)
      IN  IF r.err # NoErr THEN Changed(fv, r.err)
          ELSE Changed(VSlice(Len(r.models) = 0, r.models), NoErr)
    ELSE IF link.many \/ link.data = <<>> THEN Changed(fv, NoErr)
    ELSE IF ty.kind # "ptr" THEN Changed(fv, Panic)
    ELSE LET r == unmarshalNode(fullNode(link.data[1], inc), New(ty.elem), inc, arch) IN
         IF r.err # NoErr THEN Changed(fv, r.err) ELSE Changed(r.model, NoErr)

\* nodeBuilder.doRelation.  The linkage is written out and read back into
\* the relationship struct of the field's shape; when the shapes differ the
\* error of reading is dropped and Data stays nil
nodeBuilder_doRelation(node, args, ty, fv, inc, arch) ==
  IF args[2] \notin DOMAIN node.Relationships THEN Changed(fv, NoErr)
  ELSE
    LET link == node.Relationships[args[2]] IN
    IF ty.kind = "slice" THEN
      LET nodes == IF link.many THEN link.data ELSE <<>>
          r == unmarshalMany(nodes, 1, <<>>, ty, inc, arch)
      IN  IF r.err # NoErr THEN Changed(fv, r.err)
          ELSE Changed(VSlice(Len(r.models) = 0, r.models), NoErr)
    ELSE IF link.many \/ link.data = <<>> THEN Changed(fv, NoErr)
    \* Type().Elem() of a field that is neither slice nor pointer
    ELSE IF ty.kind # "ptr" THEN Changed(fv, Panic)
    ELSE LET r == unmarshalNode(fullNode(link.data[1], inc), New(ty.elem), inc, arch) IN
         IF r.err # NoErr THEN Changed(fv, r.err) ELSE Changed(r.model, NoErr)

\* the loop of unmarshalNode over the fields of obj, from field i on: the
\* object as the loop left it and the error.  Every access to a nil node
\* panics.
unmarshalFields(node, obj, i, inc, arch) ==
  LET fields == TypeDefs[obj.T]
      next(r) == IF r.err # NoErr THEN [obj |-> obj, err |-> r.err]
                 ELSE unmarshalFields(node, [obj EXCEPT !.F[i] = r.fv], i + 1, inc, arch)
  IN
  IF i > Len(fields) THEN [obj |-> obj, err |-> NoErr]
  ELSE
    LET args == fields[i].tag
        ty == fields[i].ty
        fv == obj.F[i]
    IN
    IF args = <<>> THEN unmarshalFields(node, obj, i + 1, inc, arch)
    ELSE IF (args[1] = annotationClientID /\ Len(args) # 1)
            \/ (args[1] # annotationClientID /\ Len(args) < 2)
    THEN [obj |-> obj, err |-> ErrBadJSONAPIStructTag]
    ELSE IF args[1] = annotationPrimary THEN
      IF node = NilNode THEN [obj |-> obj, err |-> Panic]
      ELSE next(nodeBuilder_doPrimary(node, args, ty, fv, arch))
    ELSE IF args[1] = annotationClientID THEN
      IF node = NilNode THEN [obj |-> obj, err |-> Panic]
      ELSE IF node.ClientID = <<>> THEN next(Changed(fv, NoErr))
      ELSE IF ty.kind # "string" THEN [obj |-> obj, err |-> Panic]
      ELSE next(Changed(VString(node.ClientID), NoErr))
    ELSE IF args[1] = annotationAttribute THEN
      IF node = NilNode THEN [obj |-> obj, err |-> Panic]
      ELSE next(nodeBuilder_doAttribute(node, args, ty, fv, arch))
    ELSE IF args[1] = annotationEmbedded THEN
      unmarshalFields(node, obj, i + 1, inc, arch)
    ELSE IF args[1] = annotationRelation THEN
      IF node = NilNode THEN [obj |-> obj, err |-> Panic]
      ELSE next(nodeBuilder_doRelation(node, args, ty, fv, inc, arch))
    ELSE [obj |-> obj, err |-> UnsupportedStructTag(args[1])]

\* unmarshalNode: the model as the call left it and the error; the deferred
\* recover turns a panic of the body into an error that names the model's
\* type
unmarshalNode(node, model, inc, arch) ==
  \* Value.Elem of what is no pointer, Value.NumField of what is no struct
  IF model.k # "ptr" \/ model.v.k # "struct"
  THEN [model |-> model, err |-> NotRepresentation(model)]
  ELSE LET r == unmarshalFields(node, model.v, 1, inc, arch) IN
       [model |-> VPtr(r.obj),
        err |-> IF r.err = Panic THEN NotRepresentation(model) ELSE r.err]

RECURSIVE includedMap(_, _, _)
\* the loop of UnmarshalPayload over payload.Included, from position i on:
\* a later node takes the place of an earlier one of the same key
includedMap(nodes, i, m) ==
  IF i > Len(nodes) THEN m
  ELSE includedMap(nodes, i + 1, MapPut(m, IncludedKey(nodes[i]), nodes[i]))

\* UnmarshalPayload once the document is read into payload p
unmarshalPayload(p, model, arch) ==
  \* the loop dereferences every element of included, outside any recover
  IF \E i \in 1..Len(p.Included) : p.Included[i] = NilNode
  THEN [model |-> model, err |-> Panic]
  ELSE unmarshalNode(p.Data[1], model, includedMap(p.Included, 1, NoIncluded), arch)

RECURSIVE unmarshalManyData(_, _, _, _, _, _)
RECURSIVE unmarshalManyNext(_, _, _, _, _, _, _)
\* the loop of UnmarshalManyPayload over payload.Data, from element i on:
\* the models built, or none with the error of the first node that fails
unmarshalManyData(nodes, i, ms, ty, inc, arch) ==
  IF i > Len(nodes) THEN [models |-> VSlice(FALSE, ms), err |-> NoErr]
  ELSE unmarshalManyNext(unmarshalNode(nodes[i], New(ty), inc, arch),
                         nodes, i, ms, ty, inc, arch)

\* the rest of an iteration of that loop, r being what unmarshalNode
\* returned for element i
unmarshalManyNext(r, nodes, i, ms, ty, inc, arch) ==
  IF r.err # NoErr THEN [models |-> VNil, err |-> r.err]
  ELSE unmarshalManyData(nodes, i + 1, Append(ms, r.model), ty, inc, arch)

\* UnmarshalManyPayload once the document is read into payload p; ty is
\* t.Elem()
unmarshalManyPayload(p, ty, arch) ==
  IF \E i \in 1..Len(p.Included) : p.Included[i] = NilNode
  THEN [models |-> VNil, err |-> Panic]
  ELSE unmarshalManyData(p.Data, 1, <<>>, ty, includedMap(p.Included, 1, NoIncluded), arch)

-----------------------------------------------------------------------------
(* The arguments the calls are made with *)

SeqsUpTo(S, n) == UNION {[1..m -> S] : m \in 0..n}

\* a nil slice, an empty slice and the slices of up to n elements of S
Slices(S, n) == {VSlice(TRUE, <<>>)} \cup {VSlice(FALSE, e) : e \in SeqsUpTo(S, n)}

T1 == VTime(FALSE, 1000, 5)

Comment1 == VPtr(VStruct("Comment", <<VInt(1), VString(<<"f", "o", "o">>)>>))

NewPost(id, title, comments, latest) ==
  VPtr(VStruct("Post", <<VInt(id), VString(title), comments, latest>>))

\* two snapshots of post 9 that differ in an attribute, and a post with
\* relations of its own
Post9 == NewPost(9, <<"F", "o", "o">>, VSlice(TRUE, <<>>), VNil)
Post9b == NewPost(9, <<"B", "a", "r">>, VSlice(TRUE, <<>>), VNil)
Post1 == NewPost(1, <<"F", "o", "o">>, VSlice(FALSE, <<Comment1>>), Comment1)

Posts == {VNil, Post9, Post9b, Post1}

Blogs ==
  {VPtr(VStruct("Blog", <<VInt(5), VString(cid), VString(<<"T">>), ps, cp, t>>)) :
     cid \in {<<>>, <<"c">>}, ps \in Slices(Posts, MaxRel), cp \in Posts,
     t \in {ZeroTime, T1}}

Blog5 ==
  VPtr(VStruct("Blog", <<VInt(5), VString(<<>>), VString(<<"T">>),
                         VSlice(FALSE, <<Post9>>), Post1, ZeroTime>>))

\* the elements of the root sequences
RootBlogs ==
  {VPtr(VStruct("Blog", <<VInt(id), VString(<<>>), VString(<<"T">>), ps, cp, ZeroTime>>)) :
     id \in {5, 6}, ps \in {VSlice(TRUE, <<>>), VSlice(FALSE, <<Post9>>)},
     cp \in {VNil, Post9b, Post1}}

BlogsOptionalPosts ==
  {VPtr(VStruct("BlogOptionalPosts", <<VInt(999), VString(<<"T">>), ps, cp>>)) :
     ps \in Slices(Posts, MaxRel), cp \in Posts}

Tags == {VSlice(TRUE, <<>>), VSlice(FALSE, <<>>), VSlice(FALSE, <<VString(<<"a">>)>>)}

Books ==
  {VPtr(VStruct("Book", <<VInt(id), VString(<<"a">>), VString(title), pages, pub, tags>>)) :
     id \in {0, 1}, title \in {<<>>, <<"x">>},
     pages \in {VNil, VPtr(VInt(0)), VPtr(VInt(5))},
     pub \in {ZeroTime, T1}, tags \in Tags}

BooksOmitTags == {VPtr(VStruct("BookOmitTags", <<VInt(1), tags>>)) : tags \in Tags}

Foos ==
  {VPtr(VStruct("Foo", <<VString(id), VString(title)>>)) :
     id \in {<<>>, <<"a", "b">>, <<"1", "2">>}, title \in {<<>>, <<"F">>}}

BadIDs == {VPtr(VStruct("badIDStruct", <<id>>)) : id \in {VNil, VPtr(VBool(TRUE))}}

BadID == VPtr(VStruct("badIDStruct", <<VPtr(VBool(TRUE))>>))

BadComment5 == VPtr(VStruct("BadComment", <<VInt(5), VString(<<"H">>)>>))

FlakyComment6 == VPtr(VStruct("FlakyComment", <<VInt(6), VString(<<"H">>)>>))

Threads ==
  {VPtr(VStruct("Thread", <<VInt(4), first, last>>)) :
     first \in {VNil, BadComment5}, last \in {VNil, FlakyComment6}}

\* slices of the named slice types that have a links hook
LinkedSlices ==
  {VNamedSlice(T, e) :
     T \in {"BlogList", "BadList", "FlakyList"},
     e \in SeqsUpTo({Blog5, BadComment5, FlakyComment6}, 1)}

\* the types with an annotation that is not well formed
TagTypes == {"ShortTag", "UnknownRole", "UnknownShort"}

TagStructs == {VPtr(VStruct(T, <<VInt(5), VString(<<"n">>)>>)) : T \in TagTypes}

Holders ==
  {VPtr(VStruct("Holder", <<VInt(3), post, bad>>)) :
     post \in {VNil, Post1}, bad \in {VNil, BadID}}

Cars ==
  {VPtr(VStruct("Car", <<id, make>>)) :
     id \in {VNil, VPtr(VString(<<>>)), VPtr(VString(<<"u", "1">>))},
     make \in {VNil, VPtr(VString(<<"F">>))}}

Timestamps ==
  {VPtr(VStruct("Timestamp", <<VInt(5), t, at, next, last>>)) :
     t \in {ZeroTime, T1}, at \in {ZeroTime, T1},
     next \in {VNil, VPtr(ZeroTime), VPtr(T1)},
     last \in {VNil, VPtr(ZeroTime), VPtr(T1)}}

Things ==
  {VNil} \cup
  {VPtr(VStruct("Thing", <<VInt(id), VString(fizz), VInt(buzz)>>)) :
     id \in {0, 1}, fizz \in {<<>>, <<"z">>}, buzz \in {0, 99}}

Models ==
  {VPtr(VStruct("Model", <<thing, VString(<<"f">>), VInt(buzz)>>)) :
     thing \in Things, buzz \in {0, 7}}

ModelsThingLast ==
  {VPtr(VStruct("ModelThingLast", <<VString(<<"f">>), VInt(buzz), thing>>)) :
     thing \in Things, buzz \in {0, 7}}

IDs ==
  {VPtr(VStruct("ID" \o kind, <<VInt(n)>>)) : kind \in SignedKinds, n \in {-3, 0, 5}}
  \cup
  {VPtr(VStruct("ID" \o kind, <<VInt(n)>>)) : kind \in UnsignedKinds, n \in {0, 5, 12}}
  \cup
  {VPtr(VStruct("IDptrint", <<id>>)) : id \in {VNil, VPtr(VInt(5))}}

\* a pointer to a struct of each host type
Structs ==
  Blogs \cup BlogsOptionalPosts \cup Books \cup BooksOmitTags \cup Foos
  \cup BadIDs \cup TagStructs \cup Holders \cup Threads \cup {BadComment5, FlakyComment6} \cup Cars \cup Timestamps \cup Models \cup ModelsThingLast
  \cup IDs

\* the sequences Marshal can be handed: of struct pointers, some nil, and of
\* things that are no pointers
RootSlices ==
  Slices(RootBlogs \cup {VNil, BadID, VPtr(VStruct("Holder", <<VInt(3), Post1, BadID>>))},
         MaxRoots)
  \cup {VSlice(FALSE, <<VInt(1)>>),
        VSlice(FALSE, <<VStruct("Foo", <<VString(<<>>), VString(<<>>)>>)>>),
        VSlice(FALSE, <<VPtr(VInt(1))>>)}
  \cup LinkedSlices

\* every other argument: a boolean, an integer, a struct by value, a pointer
\* to something that is no struct, a nil pointer
Others ==
  {VBool(TRUE), VInt(25), VStruct("Foo", <<VString(<<>>), VString(<<>>)>>),
   VPtr(VInt(1)), VPtr(VString(<<"s">>)), VNil}

Inputs == Structs \cup RootSlices \cup Others

\* what the conversion of a float to an integer kind that cannot represent
\* it does, which Go leaves to the implementation
Archs == {"wrap", "saturate"}

\* the model a caller decodes into: a new object, its embedded pointers set
\* as the callers of the test-suite set them
FreshTarget(T) ==
  VPtr(VStruct(T, [i \in 1..Len(TypeDefs[T]) |->
                     LET f == TypeDefs[T][i] IN
                     IF f.tag # <<>> /\ f.tag[1] = annotationExtends /\ f.ty.kind = "ptr"
                     THEN New(f.ty.elem)
                     ELSE ZeroValue(f.ty)]))

\* identifiers of documents: none, decimal numerals, a numeral with a
\* fraction, a numeral beyond 8 bits, and strings that are no numerals
IdStrings ==
  {<<>>, <<"5">>, <<"-", "3">>, <<"1", ".", "5">>, <<"3", "0", "0">>,
   <<"a", "b", "c">>, <<"1", "2", "x">>}

\* the types whose identifier a document is decoded into
IdTypes ==
  {"ID" \o kind : kind \in SignedKinds \cup UnsignedKinds}
  \cup {"IDptrint", "Foo", "Car", "badIDStruct"}

\* a document of one node without attributes
IdDocument(type, id) ==
  OnePayload([NewNode EXCEPT !.Type = type, !.ID = id], <<>>)

\* the documents handed to UnmarshalPayload directly, each with its model:
\* a node of the model's type or of another, and a document whose data is
\* null.  A negative identifier is not decoded into an unsigned kind of 32
\* bits or more, where its image lies beyond the integers of the model.
Requests ==
  {[doc |-> IdDocument(IF type = "own" THEN TypeDefs[T][1].tag[2] ELSE type, id),
    target |-> New(TStruct(T))] :
     <<T, type, id>> \in
       {x \in IdTypes \X {"own", "others"} \X IdStrings :
          LET kind == IF TypeDefs[x[1]][1].ty.kind = "ptr"
                      THEN TypeDefs[x[1]][1].ty.elem.kind
                      ELSE TypeDefs[x[1]][1].ty.kind
          IN  ~(kind \in {"uint", "uint32", "uint64"} /\ ParseFloat(x[3]).trunc < 0)}}
  \cup {[doc |-> OnePayload(NilNode, <<>>), target |-> New(TStruct(T))] : T \in IdTypes}

\* documents decoded into the types with an annotation that is not well
\* formed: a node of the type, with an id and without
TagRequests ==
  {[doc |-> IdDocument(TypeDefs[T][1].tag[2], id), target |-> New(TStruct(T))] :
     T \in TagTypes, id \in {<<>>, <<"5">>}}

\* a key the document does not have
Absent == [absent |-> TRUE]

\* a node of the document with a type, an id and a title
TitledNode(type, id, title) ==
  [NewNode EXCEPT !.Type = type, !.ID = id,
                  !.Attributes = [x \in {"title"} |-> title]]

\* the nodes a linkage of a blog document holds: a reference to post 9, post
\* 9 and post 7 written out inline, a node of another type with and without
\* an id, and a post whose id is no number
PostRef == [NewNode EXCEPT !.Type = "posts", !.ID = <<"9">>]
PostInline == TitledNode("posts", <<"9">>, VString(<<"I">>))
Post7Inline == TitledNode("posts", <<"7">>, VString(<<"J">>))
CommentRef == [NewNode EXCEPT !.Type = "comments", !.ID = <<"9">>]
CommentNoID == [NewNode EXCEPT !.Type = "comments"]
PostBadID == [NewNode EXCEPT !.Type = "posts", !.ID = <<"x">>]

Refs == {PostRef, PostInline, Post7Inline, CommentRef, CommentNoID, PostBadID}

\* what included holds of post 9: nothing, the post, two nodes of the post,
\* the post with a title that is a number, the post with a null among its
\* comments, and a null
IncludedPost == TitledNode("posts", <<"9">>, VString(<<"F">>))
IncludedPostAgain == TitledNode("posts", <<"9">>, VString(<<"G">>))
IncludedPostBadTitle == TitledNode("posts", <<"9">>, Float64(1))
IncludedPostNullComment ==
  [IncludedPost EXCEPT
     !.Relationships = [x \in {"comments"} |-> RelationshipManyNode(<<NilNode>>)]]

\* post 9 with a reference to comment 1, and comment 1
IncludedPostWithComment ==
  [IncludedPost EXCEPT
     !.Relationships =
        [x \in {"latest_comment"} |->
           RelationshipOneNode(<<[NewNode EXCEPT !.Type = "comments", !.ID = <<"1">>]>>)]]
IncludedComment ==
  [NewNode EXCEPT !.Type = "comments", !.ID = <<"1">>,
                  !.Attributes = [x \in {"body"} |-> VString(<<"b">>)]]

Includeds ==
  {<<>>, <<IncludedPost>>, <<IncludedPost, IncludedPostAgain>>,
   <<IncludedPostBadTitle>>, <<IncludedPostNullComment>>, <<NilNode>>,
   <<IncludedPostWithComment, IncludedComment>>}

\* the linkages of posts and of current_post; Absent stands for a key that is not there
PostsLinkages ==
  {Absent}
  \cup {RelationshipManyNode(<<r>>) : r \in Refs}
  \cup {RelationshipManyNode(<<NilNode>>)}
  \cup {RelationshipManyNode(<<PostRef, r>>) : r \in {Post7Inline, PostBadID}}

CurrentPostLinkages ==
  {Absent, RelationshipOneNode(<<>>)} \cup {RelationshipOneNode(<<r>>) : r \in Refs}

\* a document for a blog
BlogDocument(type, id, title, posts, current, inc) ==
  LET keys == (IF posts = Absent THEN {} ELSE {"posts"})
              \cup (IF current = Absent THEN {} ELSE {"current_post"})
  IN  OnePayload(
        [NewNode EXCEPT
           !.Type = type, !.ID = id,
           !.Attributes = IF title = Absent THEN NoAttrs
                          ELSE [x \in {"title"} |-> title],
           !.Relationships = [x \in keys |-> IF x = "posts" THEN posts ELSE current]],
        inc)

\* the blog documents handed to UnmarshalPayload, each with a new Blog
BlogRequests ==
  {[doc |-> BlogDocument(type, id, title, posts, current, inc),
    target |-> New(TStruct("Blog"))] :
     type \in {"blogs", "posts"}, id \in {<<>>, <<"5">>},
     title \in {Absent, VString(<<"T">>), Float64(1)},
     posts \in PostsLinkages, current \in CurrentPostLinkages, inc \in Includeds}

\* a blog that already holds a client id, a title, a post and a current post
OldBlog ==
  VPtr(VStruct("Blog", <<VInt(8), VString(<<"o">>), VString(<<"O">>),
                         VSlice(FALSE, <<Post9b>>), Post1, ZeroTime>>))

\* blog documents handed to UnmarshalPayload with a blog that is already
\* populated
PopulatedRequests ==
  {[doc |-> BlogDocument("blogs", <<"5">>, Absent, posts, current, inc),
    target |-> OldBlog] :
     posts \in PostsLinkages \cup {RelationshipManyNode(<<>>)},
     current \in CurrentPostLinkages, inc \in {<<>>, <<IncludedPost>>}}

\* the nodes of a document of many comments: two comments, a comment whose
\* id is no number and a node of another type
CommentNodes ==
  {[NewNode EXCEPT !.Type = "comments", !.ID = <<"1">>,
                   !.Attributes = [x \in {"body"} |-> VString(<<"a">>)]],
   [NewNode EXCEPT !.Type = "comments", !.ID = <<"2">>],
   [NewNode EXCEPT !.Type = "comments", !.ID = <<"x">>],
   [NewNode EXCEPT !.Type = "posts", !.ID = <<"1">>]}

\* the documents handed to UnmarshalManyPayload with the type *Comment; the
\* target is reflect.New of the element type
ManyRequests ==
  {[doc |-> ManyPayload(nodes, <<>>), target |-> New(TStruct("Comment"))] :
     nodes \in SeqsUpTo(CommentNodes, MaxData)}

-----------------------------------------------------------------------------
(* The calls as a state machine.  A call on a single object is one step; a  *)
(* call on a sequence is the loop of marshalMany, one step per element, so  *)
(* that the included map is visible between the visits.  A behaviour       *)
(* starts either with an argument for the encoder, whose document can then  *)
(* be decoded, or with a document and a model for the decoder.              *)

\* no call in steps, and no included map allocated
NoCalls == [c \in {} |-> [status |-> "none"]]
NoMaps == [a \in {} |-> NoIncluded]

Init ==
  /\ op = "none"
  /\ idx = 0
  /\ data = <<>>
  /\ included = NoIncluded
  /\ payload = NoPayload
  /\ err = NoErr
  /\ derr = NoErr
  /\ calls = NoCalls
  /\ maps = NoMaps
  /\ \/ /\ models \in Inputs
        /\ pc = "idle"
        /\ doc = NoPayload
        /\ target = VNil
     \/ /\ models = VNil
        /\ pc = "received"
        /\ \E r \in Requests \cup TagRequests \cup BlogRequests
                     \cup PopulatedRequests \cup ManyRequests :
             doc = r.doc /\ target = r.target

\* Marshal(models) as called by the entry point name; strip tells whether
\* the entry point clears included afterwards
Marshal(name, strip) ==
  /\ pc = "idle"
  /\ op' = name
  /\ UNCHANGED <<models, doc, target, derr, calls, maps>>
  /\ IF models.k = "slice" THEN
       \* convertToSliceInterface, then marshalMany up to its loop
       /\ pc' = "many"
       /\ idx' = 1
       /\ data' = <<>>
       /\ included' = NoIncluded
       /\ UNCHANGED <<payload, err>>
     ELSE
       \E o \in MarshalOne(models) :
         /\ pc' = "done"
         /\ included' = o.inc
         /\ err' = o.err
         /\ payload' = IF o.err = NoErr /\ strip THEN clearIncluded(o.payload)
                       ELSE o.payload
         /\ UNCHANGED <<idx, data>>

MarshalPayload == Marshal("MarshalPayload", FALSE)

\* MarshalPayloadWithoutIncluded without its call of clearIncluded
MarshalPayloadWithoutIncluded_kept == Marshal("MarshalPayloadWithoutIncluded", FALSE)

MarshalPayloadWithoutIncluded == Marshal("MarshalPayloadWithoutIncluded", TRUE)

\* an iteration that, when an element fails, returns the nodes built so far
marshalManyVisit_partial ==
  /\ pc = "many"
  /\ idx <= Len(models.e)
  /\ \E r \in {visitModelNode(models.e[idx], included, TRUE)} :
       /\ included' = r.inc
       /\ IF r.err # NoErr THEN
            /\ pc' = "done"
            /\ err' = r.err
            /\ payload' = ManyPayload(data, <<>>)
            /\ UNCHANGED <<idx, data>>
          ELSE
            /\ data' = Append(data, r.node)
            /\ idx' = idx + 1
            /\ UNCHANGED <<pc, err, payload>>
  /\ UNCHANGED <<op, models, doc, target, derr, calls, maps>>

\* one iteration of the loop of marshalMany
marshalManyVisit ==
  /\ pc = "many"
  /\ idx <= Len(models.e)
  /\ \E r \in {visitModelNode(models.e[idx], included, TRUE)} :
       /\ included' = r.inc
       /\ IF r.err # NoErr THEN
            /\ pc' = "done"
            /\ err' = r.err
            /\ payload' = NoPayload
            /\ UNCHANGED <<idx, data>>
          ELSE
            /\ data' = Append(data, r.node)
            /\ idx' = idx + 1
            /\ UNCHANGED <<pc, err, payload>>
  /\ UNCHANGED <<op, models, doc, target, derr, calls, maps>>

\* the end of marshalMany and the return of the entry point
marshalManyReturn ==
  /\ pc = "many"
  /\ idx > Len(models.e)
  /\ \E vals \in nodeMapValues(included) :
       \E o \in {MarshalHooks(TypeOfSlice(models), ManyPayload(data, vals))} :
         /\ err' = o.err
         /\ payload' = IF o.err = NoErr /\ op = "MarshalPayloadWithoutIncluded"
                       THEN clearIncluded(o.payload)
                       ELSE o.payload
  /\ pc' = "done"
  /\ UNCHANGED <<op, models, idx, data, included, doc, target, derr, calls, maps>>

MarshalEmbedded ==
  /\ pc = "idle"
  /\ op' = "MarshalOnePayloadEmbedded"
  /\ \E o \in {MarshalOnePayloadEmbedded(models)} :
       /\ payload' = o.payload
       /\ included' = o.inc
       /\ err' = o.err
  /\ pc' = "done"
  /\ UNCHANGED <<models, idx, data, doc, target, derr, calls, maps>>

\* the document a call on one object wrote reaches a reader, who decodes it
\* into a new object of the type it was made from
Deliver ==
  /\ pc = "done"
  /\ err = NoErr
  /\ payload.kind = "one"
  /\ models.k = "ptr" /\ models.v.k = "struct"
  /\ doc' = jsonPayload(payload)
  /\ target' = FreshTarget(models.v.T)
  /\ pc' = "received"
  /\ UNCHANGED <<op, models, idx, data, included, payload, err, derr, calls, maps>>

\* UnmarshalPayload(in, model) for the document doc and the model target
UnmarshalPayload ==
  /\ pc = "received"
  /\ doc.kind = "one"
  /\ \E arch \in Archs :
       \E r \in {unmarshalPayload(doc, target, arch)} :
         /\ target' = r.model
         /\ derr' = r.err
  /\ pc' = "decoded"
  /\ UNCHANGED <<op, models, idx, data, included, payload, err, doc, calls, maps>>

\* UnmarshalManyPayload(in, t) for the document doc, target holding a new
\* value of the element type; afterwards target holds the models returned
UnmarshalManyPayload ==
  /\ pc = "received"
  /\ doc.kind = "many"
  /\ \E arch \in Archs :
       \E r \in {unmarshalManyPayload(doc, TStruct(target.v.T), arch)} :
         /\ target' = r.models
         /\ derr' = r.err
  /\ pc' = "decoded"
  /\ UNCHANGED <<op, models, idx, data, included, payload, err, doc, calls, maps>>

Next ==
  \/ MarshalPayload
  \/ MarshalPayloadWithoutIncluded
  \/ marshalManyVisit
  \/ marshalManyReturn
  \/ MarshalEmbedded
  \/ Deliver
  \/ UnmarshalPayload
  \/ UnmarshalManyPayload

Spec == Init /\ [][Next]_vars

-----------------------------------------------------------------------------
(* Vocabulary of the properties *)

Range(s) == {s[i] : i \in 1..Len(s)}

\* a call that returned without error
Returned == pc = "done" /\ err = NoErr

Sideloading == op \in {"MarshalPayload", "MarshalPayloadWithoutIncluded"}

RootIsStruct == models.k = "ptr" /\ models.v.k = "struct"

\* the nodes the linkages of node n carry
LinkageNodes(n) ==
  UNION {Range(n.Relationships[r].data) : r \in DOMAIN n.Relationships}

\* the nodes of data that are not nil
DataNodes == Range(payload.Data) \ {NilNode}

SameIdentity(a, b) == a.Type = b.Type /\ a.ID = b.ID

\* the positions of included that hold the entity d refers to
IncludedEntries(d) ==
  {i \in 1..Len(payload.Included) : SameIdentity(payload.Included[i], d)}

\* the fields of the root object that carry the role annotation
RootFieldsOfRole(annotation) ==
  {i \in 1..Len(TypeDefs[models.v.T]) :
     /\ TypeDefs[models.v.T][i].tag # <<>>
     /\ TypeDefs[models.v.T][i].tag[1] = annotation}

RootTag(i) == TypeDefs[models.v.T][i].tag
RootType(i) == TypeDefs[models.v.T][i].ty
RootValue(i) == models.v.F[i]

\* a relation field that is a nil pointer or a slice without elements
Unset(i) ==
  IF RootType(i).kind = "slice" THEN Len(RootValue(i).e) = 0
  ELSE RootValue(i) = VNil

\* the envelope as written has an included key: the field is left out of the
\* document when the sequence is empty
HasIncludedKey(p) == Len(p.Included) > 0

-----------------------------------------------------------------------------
(* C1 *)

\* C1: in every call of Marshal on a sequence, the included map holds, at
\* every step of the loop over the elements, at most one node per (type, id),
\* the included sequence of the envelope holds at most one entry per
\* (type, id), and every linkage of a root refers by a shallow node to
\* exactly one entry of included.
C1_DedupInvariant ==
  (Sideloading /\ models.k = "slice") =>
    /\ \A k1, k2 \in DOMAIN included :
         SameIdentity(included[k1], included[k2]) => k1 = k2
    /\ Returned =>
         \A i, j \in 1..Len(payload.Included) :
           SameIdentity(payload.Included[i], payload.Included[j]) => i = j
    /\ (Returned /\ op = "MarshalPayload") =>
         \A n \in DataNodes : \A d \in LinkageNodes(n) :
           /\ d = toShallowNode(d)
           /\ Cardinality(IncludedEntries(d)) = 1

\* two roots whose linkages both refer to ("posts", "9"), which differ in
\* the snapshot they hold of it, encoded into one envelope
C1_Witness ==
  /\ Returned /\ op = "MarshalPayload" /\ models.k = "slice"
  /\ Len(payload.Data) = 2
  /\ models.e[1] # VNil /\ models.e[2] # VNil
  /\ models.e[1].v.F[4] = VSlice(FALSE, <<Post9>>)
  /\ models.e[2].v.F[5] = Post9b
  /\ \A i \in 1..2 :
       \E d \in LinkageNodes(payload.Data[i]) : d.Type = "posts" /\ d.ID = <<"9">>
  /\ Cardinality({i \in 1..Len(payload.Included) :
                    payload.Included[i].Type = "posts"
                    /\ payload.Included[i].ID = <<"9">>}) = 1

-----------------------------------------------------------------------------
(* C3 *)

\* the node a linkage carries for the target v when nothing is sideloaded
InlineNode(v) == visitModelNode(v, NoIncluded, FALSE).node

\* C3: when a sideloading call returns, every linkage of every node of data
\* and of the included map carries a node with nothing but type and id, and
\* the included map holds an entry of that type and id; when
\* MarshalOnePayloadEmbedded returns, the included map is empty, the envelope
\* has no included key, and every linkage of the root carries the whole node
\* of its target, attributes and relationships included.
C3_Sideload ==
  /\ (Returned /\ Sideloading) =>
       \A n \in DataNodes \cup {included[key] : key \in DOMAIN included} :
         \A d \in LinkageNodes(n) :
           /\ d # NilNode
           /\ d.Attributes = NoAttrs /\ d.Relationships = NoRels /\ d.ClientID = <<>>
           /\ \E key \in DOMAIN included : SameIdentity(included[key], d)
  /\ (Returned /\ op = "MarshalOnePayloadEmbedded") =>
       /\ included = NoIncluded
       /\ payload.Included = <<>>
       /\ ~HasIncludedKey(payload)
       /\ RootIsStruct =>
            \A i \in RootFieldsOfRole(annotationRelation) :
              RootTag(i)[2] \in DOMAIN payload.Data[1].Relationships =>
                LET link == payload.Data[1].Relationships[RootTag(i)[2]] IN
                IF RootType(i).kind = "slice" THEN
                  /\ Len(link.data) = Len(RootValue(i).e)
                  /\ \A j \in 1..Len(link.data) :
                       /\ link.data[j] = InlineNode(RootValue(i).e[j])
                       /\ RootValue(i).e[j] # VNil =>
                            link.data[j].Attributes # NoAttrs
                ELSE RootValue(i) # VNil =>
                       /\ link.data = <<InlineNode(RootValue(i))>>
                       /\ link.data[1].Attributes # NoAttrs

\* a blog whose posts have relations of their own, sideloaded: the posts and
\* the comment are in the included map and the linkages are shallow
C3_Witness ==
  /\ Returned /\ op = "MarshalPayload" /\ RootIsStruct
  /\ models.v.T = "Blog"
  /\ models.v.F[4] = VSlice(FALSE, <<Post9, Post1>>)
  /\ models.v.F[5] = Post1
  /\ DOMAIN included = {"posts,9", "posts,1", "comments,1"}
  /\ payload.Data[1].Relationships["current_post"].data =
       <<[NewNode EXCEPT !.Type = "posts", !.ID = <<"1">>]>>

-----------------------------------------------------------------------------
(* C4, C5 *)

RelationName(i) == RootTag(i)[2]
RelationPresent(i) == RelationName(i) \in DOMAIN payload.Data[1].Relationships
RelationLinkage(i) == payload.Data[1].Relationships[RelationName(i)]
CarriesOmitEmpty(i) == HasModifier(RootTag(i), annotationOmitEmpty)
ToOne(i) == RootType(i).kind # "slice"

EncodedOne == Returned /\ RootIsStruct /\ payload.kind = "one"

\* C4: in the node of an encoded object, a relation key is absent only when
\* the role carries omitempty and the field is unset; an unset to-one whose
\* key is present has data null; without omitempty an empty to-many has
\* data [] and an unset to-one has data null; and when every relation is
\* omitted the node has no relationships at all.
C4_RelationOmitEmpty ==
  EncodedOne =>
    LET rels == RootFieldsOfRole(annotationRelation) IN
    /\ \A i \in rels :
         /\ ~RelationPresent(i) => (CarriesOmitEmpty(i) /\ Unset(i))
         /\ (RelationPresent(i) /\ ToOne(i) /\ Unset(i)) =>
              RelationLinkage(i) = RelationshipOneNode(<<>>)
         /\ (~CarriesOmitEmpty(i) /\ Unset(i)) =>
              /\ RelationPresent(i)
              /\ RelationLinkage(i) =
                   IF ToOne(i) THEN RelationshipOneNode(<<>>)
                   ELSE RelationshipManyNode(<<>>)
    /\ (\A i \in rels : CarriesOmitEmpty(i) /\ Unset(i)) =>
         payload.Data[1].Relationships = NoRels

\* the blog of TestWithOmitsEmptyAnnotationOnRelation: both relations carry
\* omitempty and are unset, and the node has no relationships
C4_Witness ==
  /\ EncodedOne /\ op = "MarshalPayload"
  /\ models.v.T = "BlogOptionalPosts"
  /\ \A i \in RootFieldsOfRole(annotationRelation) : Unset(i)
  /\ payload.Data[1].Relationships = NoRels

\* C5 as stated: an unset to-one relation has its key, with data null,
\* whether or not the role carries omitempty, and a key is absent only for
\* an empty to-many with omitempty.
C5_ToOneNeverOmitted ==
  EncodedOne =>
    \A i \in RootFieldsOfRole(annotationRelation) :
      /\ (ToOne(i) /\ Unset(i)) =>
           (RelationPresent(i) /\ RelationLinkage(i) = RelationshipOneNode(<<>>))
      /\ ~RelationPresent(i) => ~ToOne(i)

\* C5 amended: an unset to-one relation has its key, with data null, unless
\* the role carries omitempty, and then the key is suppressed; a relation
\* key is suppressed exactly when the role carries omitempty and the field is
\* unset, a nil to-one as much as an empty to-many.
C5_ToOneOmittedWithOmitEmpty ==
  EncodedOne =>
    \A i \in RootFieldsOfRole(annotationRelation) :
      /\ ~RelationPresent(i) <=> (CarriesOmitEmpty(i) /\ Unset(i))
      /\ (ToOne(i) /\ Unset(i) /\ ~CarriesOmitEmpty(i)) =>
           RelationLinkage(i) = RelationshipOneNode(<<>>)

\* a to-one with omitempty that is nil, next to a to-many that is not empty:
\* the node has relationships, and no key for the to-one
C5_Witness ==
  /\ EncodedOne /\ op = "MarshalPayload"
  /\ models.v.T = "BlogOptionalPosts"
  /\ models.v.F[3] = VSlice(FALSE, <<Post9>>)
  /\ models.v.F[4] = VNil
  /\ DOMAIN payload.Data[1].Relationships = {"posts"}

-----------------------------------------------------------------------------
(* C6 *)

AttributeName(i) == RootTag(i)[2]
AttributePresent(i) == AttributeName(i) \in DOMAIN payload.Data[1].Attributes

\* C6: in the node of an encoded object no attribute field of type
\* time.Time that holds the zero time has its key in attributes, whatever
\* the modifiers; an attribute field of type *time.Time that is nil has its
\* key with the value null, unless the role carries omitempty, and then the
\* key is left out.
C6_ZeroTimestampOmitted ==
  EncodedOne =>
    \A i \in RootFieldsOfRole(annotationAttribute) :
      /\ (RootType(i) = TTime /\ RootValue(i) = ZeroTime) => ~AttributePresent(i)
      /\ (RootType(i) = TPtr(TTime) /\ RootValue(i) = VNil) =>
           IF CarriesOmitEmpty(i) THEN ~AttributePresent(i)
           ELSE /\ AttributePresent(i)
                /\ payload.Data[1].Attributes[AttributeName(i)] = VNil

\* a Timestamp whose two times are zero, one with iso8601 and one with
\* omitempty, and whose two optional times are nil
C6_Witness ==
  /\ EncodedOne /\ op = "MarshalPayload"
  /\ models.v.T = "Timestamp"
  /\ models.v.F[2] = ZeroTime /\ models.v.F[3] = ZeroTime
  /\ models.v.F[4] = VNil /\ models.v.F[5] = VNil
  /\ DOMAIN payload.Data[1].Attributes = {"next"}

-----------------------------------------------------------------------------
(* C2: round trip *)

\* a document written by the encoder for one object has been decoded
RoundTripped == pc = "decoded" /\ op # "none"

RECURSIVE SameValue(_, _, _)
\* a and b, of type ty, agree on every field that has a role: times to the
\* second, which is all a document carries, and a nil sequence like an
\* empty one
SameValue(ty, a, b) ==
  CASE ty.kind = "ptr" ->
         /\ (a = VNil) = (b = VNil)
         /\ a # VNil => SameValue(ty.elem, a.v, b.v)
    [] ty.kind = "slice" ->
         /\ Len(a.e) = Len(b.e)
         /\ \A i \in 1..Len(a.e) : SameValue(ty.elem, a.e[i], b.e[i])
    [] ty.kind = "struct" ->
         \A i \in 1..Len(TypeDefs[ty.name]) :
            TypeDefs[ty.name][i].tag # <<>>
            => SameValue(TypeDefs[ty.name][i].ty, a.F[i], b.F[i])
    [] ty.kind = "Time" -> a.zero = b.zero /\ (~a.zero => a.unix = b.unix)
    [] OTHER -> a = b

\* C2: for an object graph that MarshalPayload encodes, decoding the document
\* into a new object of the same type succeeds and yields an object equal to
\* the original on every field that has a role, embedded fields included
C2_RoundTrip ==
  RoundTripped /\ op = "MarshalPayload"
  => /\ derr = NoErr
     /\ SameValue(TPtr(TStruct(models.v.T)), target, models)

-----------------------------------------------------------------------------
(* C7: attributes and omitempty *)

\* the value of attribute field i is the zero value of its type, or a
\* sequence without elements
ZeroOrEmpty(i) ==
  IF RootType(i).kind = "slice" THEN Len(RootValue(i).e) = 0
  ELSE RootValue(i) = ZeroValue(RootType(i))

\* C7: MarshalPayload of a book completes without fault, and in its node the
\* key of an attribute field that is no timestamp is absent if and only if
\* the role carries omitempty and the value is the zero value of its type
\* (for a sequence of tags: empty); a key that is present holds the value of
\* the field.
C7_AttributeOmitEmpty ==
  (pc = "done" /\ op = "MarshalPayload" /\ RootIsStruct
   /\ models.v.T \in {"Book", "BookOmitTags"})
  => /\ err = NoErr
     /\ \A i \in RootFieldsOfRole(annotationAttribute) :
          RootType(i) \notin {TTime, TPtr(TTime)} =>
            /\ ~AttributePresent(i) <=> (CarriesOmitEmpty(i) /\ ZeroOrEmpty(i))
            /\ AttributePresent(i) =>
                 payload.Data[1].Attributes[AttributeName(i)] = RootValue(i)

-----------------------------------------------------------------------------
(* C8: the identifier on encode *)

\* the kind doPrimary switches on: that of the field, or of what it points to
IdentifierKind(ty) == IF ty.kind = "ptr" THEN ty.elem.kind ELSE ty.kind

\* the node as written has an id key: the key is left out of the document
\* when the id is empty
HasIDKey(n) == n.ID # <<>>

\* the number a decimal numeral with an optional minus sign spells
NumeralValue(cs) ==
  IF cs # <<>> /\ cs[1] = "-" THEN 0 - DecimalValue(Tail(cs)) ELSE DecimalValue(cs)

\* a sequence of digits, with an optional minus sign before it
IsNumeral(cs) ==
  LET body == IF cs # <<>> /\ cs[1] = "-" THEN Tail(cs) ELSE cs IN
  body # <<>> /\ AllDigits(body)

\* what the identifier field of the root object holds, behind its pointer if
\* it is one
RootIdentifier ==
  IF RootType(1).kind = "ptr" THEN RootValue(1).v ELSE RootValue(1)

\* C8: MarshalPayload of an object whose identifier field is of kind string
\* or of an integer kind, or a pointer to one, returns a node whose type is
\* the name the role declares and whose id is the string form of the value,
\* an empty string leaving the id out of the document; an identifier field
\* of any other kind makes the call fail with ErrBadJSONAPIID, without an
\* envelope.
C8_IdentifierEncoding ==
  (pc = "done" /\ op = "MarshalPayload" /\ RootIsStruct /\ models.v.T \in IdTypes)
  => LET kind == IdentifierKind(RootType(1)) IN
     IF kind = "string" \/ kind \in SignedKinds \cup UnsignedKinds THEN
       /\ err = NoErr
       /\ payload.Data[1].Type = RootTag(1)[2]
       /\ IF kind = "string"
          THEN /\ payload.Data[1].ID = RootIdentifier.s
               /\ RootIdentifier.s = <<>> => ~HasIDKey(payload.Data[1])
          ELSE /\ IsNumeral(payload.Data[1].ID)
               /\ NumeralValue(payload.Data[1].ID) = RootIdentifier.n
               /\ RootIdentifier.n = 5 => payload.Data[1].ID = <<"5">>
     ELSE err = ErrBadJSONAPIID /\ payload = NoPayload

-----------------------------------------------------------------------------
(* C9: the identifier on decode *)

\* a document of one node handed to UnmarshalPayload directly, with a model
\* of one of the identifier types, has been decoded
Decoded == pc = "decoded" /\ op = "none" /\ doc.kind = "one" /\ target.v.T \in IdTypes

\* the identifier field of the decoded model, behind its pointer if it is
\* one
TargetType(i) == TypeDefs[target.v.T][i].ty
TargetIdentifier ==
  IF TargetType(1).kind = "ptr" THEN target.v.F[1].v ELSE target.v.F[1]

\* the integer kind can hold n
Representable(kind, n) ==
  IF kind \in {"int8", "int16"}
  THEN n >= 0 - Pow2(NarrowBits(kind) - 1) /\ n < Pow2(NarrowBits(kind) - 1)
  ELSE IF kind \in {"uint8", "uint16"} THEN n >= 0 /\ n < Pow2(NarrowBits(kind))
  ELSE kind \in SignedKinds \/ n >= 0

\* C9: an object with a string identifier, not empty, that is encoded and
\* decoded again has the identical string as its identifier.  A document
\* whose node is of the model's type and has an id: decoded into an integer
\* identifier, a numeral of an integer the kind can hold yields that integer
\* and an id that is no number fails
\* with ErrBadJSONAPIID; decoded into an identifier that is neither string
\* nor of an integer kind, it fails with ErrBadJSONAPIID.
C9_IdentifierRoundTrip ==
  /\ (/\ RoundTripped /\ op = "MarshalPayload" /\ models.v.T \in IdTypes
      /\ IdentifierKind(RootType(1)) = "string"
      /\ RootValue(1) # VNil /\ RootIdentifier.s # <<>>)
     => /\ derr = NoErr
        /\ target.v.F[1] # VNil
        /\ TargetIdentifier = RootIdentifier
  /\ (/\ Decoded /\ doc.Data[1] # NilNode /\ doc.Data[1].ID # <<>>
      /\ doc.Data[1].Type = TypeDefs[target.v.T][1].tag[2])
     => LET kind == IdentifierKind(TargetType(1))
            id == doc.Data[1].ID
        IN  IF kind \in SignedKinds \cup UnsignedKinds THEN
              IF IsNumeral(id)
              THEN Representable(kind, NumeralValue(id)) =>
                   /\ derr = NoErr
                   /\ TargetIdentifier = VInt(NumeralValue(id))
              ELSE ParseFloat(id).ok \/ derr = ErrBadJSONAPIID
            ELSE kind # "string" => derr = ErrBadJSONAPIID

-----------------------------------------------------------------------------
(* C10: the shape of the argument *)

\* a pointer to a struct
IsStructPointer(v) == v.k = "ptr" /\ v.v.k = "struct"

\* a sequence whose elements are pointers to structs, nil ones among them
IsSliceOfStructPointers(v) ==
  v.k = "slice" /\ \A i \in 1..Len(v.e) : v.e[i] = VNil \/ IsStructPointer(v.e[i])

\* C10: MarshalPayload on an argument that is neither a pointer to a struct
\* nor a sequence of such pointers fails with ErrUnexpectedType and has no
\* envelope; on a pointer to a struct a call that returns has the envelope
\* of one node, and on a sequence the envelope of as many nodes as the
\* sequence has elements.
C10_InputShape ==
  (pc = "done" /\ op = "MarshalPayload")
  => IF IsStructPointer(models)
     THEN err = NoErr => payload.kind = "one" /\ Len(payload.Data) = 1
     ELSE IF IsSliceOfStructPointers(models)
     THEN err = NoErr => payload.kind = "many" /\ Len(payload.Data) = Len(models.e)
     ELSE err = ErrUnexpectedType /\ payload = NoPayload

-----------------------------------------------------------------------------
(* C11: included is never empty *)

\* the objects the relation fields of the object behind v refer to
RelationTargets(v) ==
  UNION {IF TypeDefs[v.v.T][i].ty.kind = "slice"
         THEN Range(v.v.F[i].e) \ {VNil}
         ELSE {v.v.F[i]} \ {VNil} :
         i \in {j \in 1..Len(TypeDefs[v.v.T]) :
                  /\ TypeDefs[v.v.T][j].tag # <<>>
                  /\ TypeDefs[v.v.T][j].tag[1] = annotationRelation}}

\* the objects the call was handed: the argument, or the elements of the
\* sequence that are not nil
Roots == IF models.k = "slice" THEN Range(models.e) \ {VNil} ELSE {models}

\* some object handed to the call refers to another
HasTargets == \E r \in Roots : RelationTargets(r) # {}

\* C11: the envelope a call of an encoder entry point returns has an included
\* key only if the call sideloads and some root refers to another object;
\* MarshalPayload has the key exactly then, with one entry per entry of the
\* included map and none of them nil, so that included is never written as an
\* empty sequence.
C11_IncludedNeverEmpty ==
  (Returned /\ payload.kind \in {"one", "many"})
  => /\ HasIncludedKey(payload) => (op = "MarshalPayload" /\ HasTargets)
     /\ op = "MarshalPayload" =>
          /\ HasIncludedKey(payload) <=> HasTargets
          /\ Len(payload.Included) = Cardinality(DOMAIN included)
          /\ \A i \in 1..Len(payload.Included) : payload.Included[i] # NilNode

\* a blog without posts and without a current post: its node has both
\* relationships, empty, and the envelope has no included
C11_Witness ==
  /\ Returned /\ op = "MarshalPayload" /\ RootIsStruct
  /\ models.v.T = "Blog"
  /\ ~HasTargets
  /\ DOMAIN payload.Data[1].Relationships = {"posts", "current_post"}
  /\ payload.Included = <<>>
  /\ ~HasIncludedKey(payload)

-----------------------------------------------------------------------------
(* C12: MarshalPayloadWithoutIncluded *)

\* marshalMany up to the call of nodeMapValues: the nodes of data, the
\* included map and the error
marshalMany(ms) == visitModelNodeRelationships(ms, 1, <<>>, NoIncluded, TRUE)

\* C12: the envelope MarshalPayloadWithoutIncluded returns has no included,
\* for one object and for a sequence, and its data is the data Marshal
\* builds for the same argument: the same nodes in the same order, their
\* linkages as they were, each still referring to an entry of the included
\* map of the call.
C12_StripIncluded ==
  (Returned /\ op = "MarshalPayloadWithoutIncluded")
  => /\ payload.Included = <<>>
     /\ ~HasIncludedKey(payload)
     /\ IF models.k = "slice"
        THEN /\ payload.kind = "many"
             /\ Len(payload.Data) = Len(models.e)
             /\ marshalMany(models.e).err = NoErr
             /\ payload.Data = marshalMany(models.e).nodes
        ELSE /\ payload.kind = "one"
             /\ \E o \in marshalOne(models) :
                  o.err = NoErr /\ payload.Data = o.payload.Data
     /\ \A n \in DataNodes : \A d \in LinkageNodes(n) :
          \E key \in DOMAIN included : SameIdentity(included[key], d)

\* two blogs with posts encoded without included: both nodes are there with
\* their linkages, the included map of the call is not empty, and the
\* envelope has no included
C12_Witness ==
  /\ Returned /\ op = "MarshalPayloadWithoutIncluded"
  /\ models.k = "slice" /\ Len(models.e) = 2 /\ Len(payload.Data) = 2
  /\ \A i \in 1..2 : payload.Data[i] # NilNode /\ LinkageNodes(payload.Data[i]) # {}
  /\ DOMAIN included # {}
  /\ payload.Included = <<>>

-----------------------------------------------------------------------------
(* C13 *)

\* the triples <<e, i, j>>: field e of the root is an embedded value that is
\* set, field i of the root is an attribute that is set, field j of the
\* embedded value is an attribute of the same name that is set
Collisions ==
  {c \in RootFieldsOfRole(annotationExtends)
         \X RootFieldsOfRole(annotationAttribute)
         \X (1..3) :
     /\ RootValue(c[1]) # VNil
     /\ RootValue(c[2]) # ZeroValue(RootType(c[2]))
     /\ LET T == RootValue(c[1]).v.T IN
          /\ c[3] <= Len(TypeDefs[T])
          /\ TypeDefs[T][c[3]].tag[1] = annotationAttribute
          /\ TypeDefs[T][c[3]].tag[2] = RootTag(c[2])[2]
          /\ RootValue(c[1]).v.F[c[3]] # ZeroValue(TypeDefs[T][c[3]].ty)}

\* C13: when the root and the value it embeds both declare an attribute of
\* one name and both are set, the node carries the value of the root, wherever
\* the embedded field is declared.
C13_ParentAttributeWins ==
  (Returned /\ RootIsStruct /\ payload.kind = "one") =>
    \A c \in Collisions :
      /\ RootTag(c[2])[2] \in DOMAIN payload.Data[1].Attributes
      /\ payload.Data[1].Attributes[RootTag(c[2])[2]] = RootValue(c[2])

-----------------------------------------------------------------------------
(* C14 *)

\* the node of the value field e of the root embeds
EmbeddedNode(e) == visitModelNode(RootValue(e), NoIncluded, TRUE).node

\* the attribute field i of the root has written its key when field e is
\* merged: it is declared before e and is not left out as empty
PreExisting(i, e) ==
  /\ i < e
  /\ ~(HasModifier(RootTag(i), annotationOmitEmpty)
       /\ RootValue(i) = ZeroValue(RootType(i)))

\* C14: the merge embedding performs gives the parent node the type and the
\* client id of the child node, the id of the child node when the parent has
\* none, and the union of the two attribute maps in which a key the parent
\* already holds keeps the parent's value.
C14_EmbeddingMerge ==
  (Returned /\ RootIsStruct /\ payload.kind = "one") =>
    \A e \in RootFieldsOfRole(annotationExtends) :
      (RootValue(e) # VNil /\ RootFieldsOfRole(annotationPrimary) = {}) =>
        LET child == EmbeddedNode(e)
            n == payload.Data[1]
            own == {RootTag(i)[2] : i \in {j \in RootFieldsOfRole(annotationAttribute) :
                                            PreExisting(j, e)}}
        IN  /\ n.Type = child.Type
            /\ n.ClientID = child.ClientID
            /\ n.ID = child.ID
            /\ e = Len(TypeDefs[models.v.T]) =>
                 /\ DOMAIN n.Attributes = own \cup DOMAIN child.Attributes
                 /\ \A i \in RootFieldsOfRole(annotationAttribute) :
                      PreExisting(i, e) => n.Attributes[RootTag(i)[2]] = RootValue(i)
                 /\ \A k \in DOMAIN child.Attributes \ own :
                      n.Attributes[k] = child.Attributes[k]

-----------------------------------------------------------------------------
(* C15 *)

-----------------------------------------------------------------------------
(* C16 *)

\* the error of visiting v by itself, as the entry point called visits it
VisitErr(v) == visitModelNode(v, NoIncluded, Sideloading).err

\* the roots that are pointers to structs
StructRoots == {r \in Roots : IsStructPointer(r)}

\* the objects a root refers to, directly or through one of its targets
ClosureTargets(r) ==
  RelationTargets(r) \cup UNION {RelationTargets(t) : t \in RelationTargets(r)}

\* C16: a call that ended with an error returned no envelope; when an
\* object a root refers to cannot be visited the call ends with an error
\* and no envelope; on a sequence the error is the one of the first element
\* that fails, and the nodes of the elements before it are not returned.
C16_EncodeAtomic ==
  pc = "done" =>
    /\ err # NoErr => payload = NoPayload
    /\ \A r \in StructRoots : \A t \in {r} \cup ClosureTargets(r) :
         VisitErr(t) # NoErr => (err # NoErr /\ payload = NoPayload)
    /\ (Sideloading /\ models.k = "slice") =>
         \A k \in 1..Len(models.e) :
           (/\ VisitErr(models.e[k]) # NoErr
            /\ \A j \in 1..(k - 1) : VisitErr(models.e[j]) = NoErr)
           => (err = VisitErr(models.e[k]) /\ payload = NoPayload)

\* a sequence of a blog with a post and an object that refers to a post and
\* to an object whose identifier cannot be encoded: the node of the blog was
\* built, posts were put into the included map, and the call returned
\* ErrBadJSONAPIID and nothing else
C16_Witness ==
  /\ pc = "done" /\ models.k = "slice" /\ Len(models.e) = 2
  /\ IsStructPointer(models.e[1]) /\ models.e[1].v.T = "Blog"
  /\ IsStructPointer(models.e[2]) /\ models.e[2].v.T = "Holder"
  /\ Len(data) = 1 /\ LinkageNodes(data[1]) # {}
  /\ Cardinality(DOMAIN included) = 2
  /\ err = ErrBadJSONAPIID
  /\ payload = NoPayload

-----------------------------------------------------------------------------
(* C17 *)

\* the model as the caller handed it to UnmarshalPayload
TargetBefore ==
  IF op # "none" THEN FreshTarget(models.v.T)
  \* no document carries a client id, so that the blog that held one keeps it
  ELSE IF target.v.T = "Blog" /\ target.v.F[2] = OldBlog.v.F[2] THEN OldBlog
  ELSE New(TStruct(target.v.T))

\* C17: a decode that ended with an error left the caller's model as it was
\* handed in, without any of the fields set before the failure, and
\* UnmarshalManyPayload returned no models.
C17_DecodeNoPartial ==
  (pc = "decoded" /\ derr # NoErr) =>
    IF doc.kind = "many" THEN target = VNil ELSE target = TargetBefore

-----------------------------------------------------------------------------
(* C18 *)

\* the type name the identifier field of host type T declares
DeclaredType(T) ==
  LET i == CHOOSE j \in 1..Len(TypeDefs[T]) :
             TypeDefs[T][j].tag # <<>> /\ TypeDefs[T][j].tag[1] = annotationPrimary
  IN  TypeDefs[T][i].tag[2]

\* UnmarshalPayload was called on a document of one node and got as far as
\* hydrating it
Hydrated ==
  /\ pc = "decoded" /\ op = "none" /\ doc.kind = "one"
  /\ doc.Data[1] # NilNode
  /\ \A i \in 1..Len(doc.Included) : doc.Included[i] # NilNode

\* the node the to-one relation current_post of a blog document is hydrated
\* from
CurrentPostNode ==
  fullNode(doc.Data[1].Relationships["current_post"].data[1],
           includedMap(doc.Included, 1, NoIncluded))

\* the document reaches the relation current_post of a blog, which has data:
\* the fields before it hydrate
ReachesCurrentPost ==
  /\ Hydrated /\ target.v.T = "Blog"
  /\ doc.Data[1].Type = "blogs"
  /\ "title" \in DOMAIN doc.Data[1].Attributes => doc.Data[1].Attributes["title"].k = "string"
  /\ "posts" \notin DOMAIN doc.Data[1].Relationships
  /\ "current_post" \in DOMAIN doc.Data[1].Relationships
  /\ doc.Data[1].Relationships["current_post"].data # <<>>

\* C18: a root node whose type is not the one the model declares fails with
\* the type mismatch error, whether or not it has an id, and so does the
\* target of a relation.
C18_TypeValidation ==
  /\ (Hydrated /\ doc.Data[1].Type # DeclaredType(target.v.T))
     => derr = TypeMismatch(doc.Data[1].Type, DeclaredType(target.v.T))
  /\ (ReachesCurrentPost /\ CurrentPostNode.Type # "posts")
     => derr = TypeMismatch(CurrentPostNode.Type, "posts")

-----------------------------------------------------------------------------
(* C19 *)

\* the positions of the document's included that hold the node r refers to
IncludedPositions(r) ==
  {i \in 1..Len(doc.Included) : SameIdentity(doc.Included[i], r)}

\* the node a reference is hydrated from: the entry of included of its type
\* and id, the last one when there are several, and the reference itself
\* when there is none
ResolvedNode(r) ==
  IF IncludedPositions(r) = {} THEN r
  ELSE doc.Included[CHOOSE i \in IncludedPositions(r) :
                      \A j \in IncludedPositions(r) : j <= i]

\* the models a new object of host type T can become when hydrated from the
\* node reference r resolves to, and the errors of doing so
HydratedFrom(r, T) ==
  {unmarshalNode(ResolvedNode(r), New(TStruct(T)),
                 includedMap(doc.Included, 1, NoIncluded), arch) : arch \in Archs}

\* the references of the linkages of the root node
RootReferences ==
  UNION {Range(doc.Data[1].Relationships[x].data) :
           x \in DOMAIN doc.Data[1].Relationships}

\* the root node hydrates when it is taken without its relationships
RootAloneHydrates ==
  \E arch \in Archs :
    unmarshalNode([doc.Data[1] EXCEPT !.Relationships = NoRels],
                  New(TStruct(target.v.T)), NoIncluded, arch).err = NoErr

\* C19: in a blog that was decoded, current_post and every element of posts
\* is the object hydrated from the included entry of the reference's type
\* and id, or from the reference itself when included has none; a decode
\* whose root and whose references each hydrate does not fail, whatever
\* included lacks; and a reference inside an included node resolves against
\* the same included.
C19_RelationshipResolution ==
  (Hydrated /\ target.v.T = "Blog") =>
    LET rels == doc.Data[1].Relationships IN
    /\ derr = NoErr =>
         /\ ("current_post" \in DOMAIN rels /\ rels["current_post"].data # <<>>) =>
              \E h \in HydratedFrom(rels["current_post"].data[1], "Post") :
                h.err = NoErr /\ target.v.F[5] = h.model
         /\ "posts" \in DOMAIN rels =>
              /\ Len(target.v.F[4].e) = Len(rels["posts"].data)
              /\ \A i \in 1..Len(rels["posts"].data) :
                   \E h \in HydratedFrom(rels["posts"].data[i], "Post") :
                     h.err = NoErr /\ target.v.F[4].e[i] = h.model
         /\ ("current_post" \in DOMAIN rels /\ rels["current_post"].data = <<PostRef>>
             /\ doc.Included = <<IncludedPostWithComment, IncludedComment>>) =>
              target.v.F[5].v.F[4] = VPtr(VStruct("Comment", <<VInt(1), VString(<<"b">>)>>))
    /\ (/\ RootAloneHydrates
        /\ \A r \in RootReferences :
             r # NilNode /\ \E h \in HydratedFrom(r, "Post") : h.err = NoErr)
       => derr = NoErr

\* a blog document whose current_post refers to post 9, which included
\* holds, and whose posts refer to post 9 and to post 7, which included does
\* not hold: the blog has the title of the included post in current_post and
\* in the first of posts, and the inline title of post 7 in the second
C19_Witness ==
  /\ Hydrated /\ target.v.T = "Blog" /\ derr = NoErr
  /\ doc.Included = <<IncludedPost>>
  /\ DOMAIN doc.Data[1].Relationships = {"posts", "current_post"}
  /\ doc.Data[1].Relationships["current_post"].data = <<PostRef>>
  /\ doc.Data[1].Relationships["posts"].data = <<PostRef, Post7Inline>>
  /\ target.v.F[5].v.F[2] = VString(<<"F">>)
  /\ target.v.F[4].e[1].v.F[2] = VString(<<"F">>)
  /\ target.v.F[4].e[2].v.F[1] = VInt(7)
  /\ target.v.F[4].e[2].v.F[2] = VString(<<"J">>)

-----------------------------------------------------------------------------
(* C20 *)

\* the errors the deferred recover of unmarshalNode makes, for a model of
\* any host type
MalformedErrors == {NotRepresentation(New(TStruct(T))) : T \in TypeNames}

\* C20: a decode of a document of one node never ends in a crash; a fault in
\* hydration, in the root or in the target of a relation, is reported as the
\* error that names the type of the model the caller handed in; an id that
\* is no number in the target of a relation is reported as ErrBadJSONAPIID.
C20_FaultsCaughtAtTopLevel ==
  (pc = "decoded" /\ doc.kind = "one") =>
    /\ derr # Panic
    /\ derr \in MalformedErrors => derr = NotRepresentation(TargetBefore)
    /\ (ReachesCurrentPost /\ CurrentPostNode = PostBadID) => derr = ErrBadJSONAPIID

-----------------------------------------------------------------------------
(* C21 *)

\* links that passed, or would pass, validate; none attached counts
ValidOrNone(links) == links = NoLinks \/ validate(links) = NoErr

\* the nodes of the returned envelope
EmittedNodes == (Range(payload.Data) \cup Range(payload.Included)) \ {NilNode}

\* the dynamic type of the argument of the call
RootTypeName ==
  IF RootIsStruct THEN models.v.T
  ELSE IF models.k = "slice" THEN TypeOfSlice(models)
  ELSE ""

\* some invocation of the links hook of type T answers links that are not
\* valid
AnswersInvalid(T) ==
  Linkable(T) /\ \E n \in 1..Len(LinksHooks[T]) : validate(LinksHooks[T][n]) # NoErr

\* C21: an encode of an argument whose links hook answers invalid links
\* ends with the invalid-links error; no node of a returned envelope, and
\* no returned envelope, carries links that are not valid; the envelope
\* carries links and meta only when the argument itself is a sequence
\* that has the hook, whatever hooks its elements have.
C21_InvalidLinksAbort ==
  (pc = "done" /\ Sideloading) =>
    /\ AnswersInvalid(RootTypeName) => err = ErrInvalidLinks
    /\ err = NoErr =>
         /\ \A n \in EmittedNodes : ValidOrNone(n.Links)
         /\ ValidOrNone(payload.Links)
         /\ payload.Links # NoLinks => Linkable(RootTypeName) /\ models.k = "slice"
         /\ payload.Meta # NoMeta => Metable(RootTypeName) /\ models.k = "slice"

-----------------------------------------------------------------------------
(* C29 *)

\* the links that passed validate when a value of type T was encoded: the
\* answer of the first invocation of its hook
ValidatedLinks(T) == JSONAPILinks(T, 1)

\* C29: in a returned envelope, the links of the node of an object that has
\* the links hook, and the links of the envelope of a sequence that has
\* it, are the very links that passed validate.
C29_ValidatedLinksAttached ==
  (Returned /\ Sideloading) =>
    /\ (RootIsStruct /\ Linkable(RootTypeName)) =>
          payload.Data[1].Links = ValidatedLinks(RootTypeName)
    /\ models.k = "slice" =>
          /\ Linkable(RootTypeName) => payload.Links = ValidatedLinks(RootTypeName)
          /\ \A i \in 1..Len(models.e) :
               (IsStructPointer(models.e[i]) /\ Linkable(models.e[i].v.T)) =>
                  payload.Data[i].Links = ValidatedLinks(models.e[i].v.T)

-----------------------------------------------------------------------------
(* C22 *)

\* the roles a first token can name
Roles ==
  {annotationPrimary, annotationClientID, annotationAttribute,
   annotationRelation, annotationExtends}

\* the least number of tokens the annotation of a role has
MinTokens(role) == IF role = annotationClientID THEN 1 ELSE 2

\* an annotation that is not well formed
Malformed(tag) ==
  tag # <<>> /\ (tag[1] \notin Roles \/ Len(tag) < MinTokens(tag[1]))

\* type T declares a field whose annotation is not well formed
HasMalformed(T) == \E i \in 1..Len(TypeDefs[T]) : Malformed(TypeDefs[T][i].tag)

\* the names under which type T, which embeds nothing, declares attributes
AttributeNames(T) ==
  {TypeDefs[T][i].tag[2] :
     i \in {j \in 1..Len(TypeDefs[T]) :
              Len(TypeDefs[T][j].tag) > 1 /\ TypeDefs[T][j].tag[1] = annotationAttribute}}

\* the errors that report an annotation
TagErrors ==
  {ErrBadJSONAPIStructTag} \cup {UnsupportedStructTag(a) : a \in {"bogus"} \cup Roles}

\* C22: an encode of an object, and a decode into an object, of a type with
\* an annotation that has too few tokens for its role or whose first token
\* is no role ends with ErrBadJSONAPIStructTag; for a type whose
\* annotations are well formed neither reports an annotation, whatever
\* roles they name; a field without annotation (PublishedAt of Book) is
\* passed over without error, adds no attribute to the document, and is
\* left as it was by decode.
C22_FieldClassification ==
  /\ (pc = "done" /\ RootIsStruct) =>
       /\ HasMalformed(models.v.T) => err = ErrBadJSONAPIStructTag
       /\ ~HasMalformed(models.v.T) => err \notin TagErrors
       /\ models.v.T = "Book" =>
            /\ err = NoErr
            /\ DOMAIN payload.Data[1].Attributes \subseteq AttributeNames("Book")
  /\ (pc = "decoded" /\ doc.kind = "one" /\ doc.Data[1] # NilNode
      /\ \A i \in 1..Len(doc.Included) : doc.Included[i] # NilNode) =>
       /\ HasMalformed(target.v.T) => derr = ErrBadJSONAPIStructTag
       /\ ~HasMalformed(target.v.T) => derr \notin TagErrors
       /\ target.v.T = "Book" =>
            /\ derr = NoErr
            /\ target.v.F[5] = FreshTarget("Book").v.F[5]

-----------------------------------------------------------------------------
(* C23 *)

\* the node a visit of object v on its own builds
NodeOf(v) == visitModelNode(v, NoIncluded, TRUE).node

\* the posts a blog refers to, in the order the encoder visits them: the
\* elements of posts, then current_post
PostsVisited(blog) ==
  SelectSeq(blog.v.F[4].e \o <<blog.v.F[5]>>, LAMBDA v : v # VNil)

\* the posts the roots of the call refer to, in the order of the visits
RECURSIVE PostsOfRoots(_, _)
PostsOfRoots(roots, i) ==
  IF i > Len(roots) THEN <<>>
  ELSE (IF IsStructPointer(roots[i]) /\ roots[i].v.T = "Blog"
        THEN PostsVisited(roots[i]) ELSE <<>>)
       \o PostsOfRoots(roots, i + 1)

\* the roots visited so far
RootsVisited ==
  IF models.k = "slice" THEN SubSeq(models.e, 1, idx - 1)
  ELSE IF pc = "done" THEN <<models>>
  ELSE <<>>

\* position i is the first of sequence s that holds a post of its identity
FirstOfItsKey(s, i) ==
  \A j \in 1..(i - 1) : IncludedKey(NodeOf(s[j])) # IncludedKey(NodeOf(s[i]))

\* the included map holds, for every post visited so far, the node of the
\* first visit of its (type, id)
FirstWriteStored ==
  (Sideloading /\ pc \in {"many", "done"} /\ (pc = "done" => err = NoErr)
   /\ (RootIsStruct \/ models.k = "slice")) =>
    LET s == PostsOfRoots(RootsVisited, 1) IN
    \A i \in 1..Len(s) :
      FirstOfItsKey(s, i) =>
         /\ IncludedKey(NodeOf(s[i])) \in DOMAIN included
         /\ included[IncludedKey(NodeOf(s[i]))] = NodeOf(s[i])

\* a step of a call leaves every entry of the included map as it is
IncludedKept ==
  (pc = "many") =>
     \A key \in DOMAIN included :
        key \in DOMAIN included' /\ included'[key] = included[key]

\* the included sequence of a returned envelope holds the nodes of the map
IncludedFromMap ==
  (Returned /\ op = "MarshalPayload") =>
     Range(payload.Included) = {included[key] : key \in DOMAIN included}

\* C23: during an encode the included map never loses or changes an entry;
\* for every post a root refers to it holds the node built at the first
\* visit of that (type, id), whatever later visits of the same (type, id)
\* built; the call returns without error and its included sequence holds
\* the nodes of the map.
C23_FirstWriteWins ==
  [](FirstWriteStored /\ IncludedFromMap) /\ [][IncludedKept]_vars

\* two roots that hold different snapshots of post 9, encoded into one
\* envelope whose included holds the first
C23_Witness ==
  /\ Returned /\ op = "MarshalPayload" /\ models.k = "slice"
  /\ Len(models.e) = 2
  /\ IsStructPointer(models.e[1]) /\ IsStructPointer(models.e[2])
  /\ models.e[1].v.F[5] = Post9b /\ models.e[2].v.F[4] = VSlice(FALSE, <<Post9>>)
  /\ NodeOf(Post9) # NodeOf(Post9b)
  /\ included["posts,9"] = NodeOf(Post9b)
  /\ NodeOf(Post9b) \in Range(payload.Included)
  /\ NodeOf(Post9) \notin Range(payload.Included)

-----------------------------------------------------------------------------
(* C24 *)

\* the linkage the root node of the document has under key name, or Absent
RootLinkage(name) ==
  IF name \in DOMAIN doc.Data[1].Relationships
  THEN doc.Data[1].Relationships[name]
  ELSE Absent

\* the posts the elements of linkage link hydrate into, one per element in
\* the order of the document
HydratedPosts(link, arch) ==
  [i \in 1..Len(link.data) |->
     unmarshalNode(fullNode(link.data[i], includedMap(doc.Included, 1, NoIncluded)),
                   New(TStruct("Post")),
                   includedMap(doc.Included, 1, NoIncluded), arch).model]

\* a step of UnmarshalPayload that hydrates a blog from a document of one
\* node
HydratesBlog ==
  /\ pc = "received" /\ pc' = "decoded"
  /\ doc.kind = "one" /\ doc.Data[1] # NilNode
  /\ \A i \in 1..Len(doc.Included) : doc.Included[i] # NilNode
  /\ target.v.T = "Blog"

\* what the step does to the two relation fields of the blog
RelationFieldsEffect ==
  /\ RootLinkage("posts") = Absent => target'.v.F[4] = target.v.F[4]
  /\ (RootLinkage("current_post") = Absent
      \/ RootLinkage("current_post") = RelationshipOneNode(<<>>)) =>
        target'.v.F[5] = target.v.F[5]
  /\ (derr' = NoErr /\ RootLinkage("posts") # Absent /\ RootLinkage("posts").many) =>
        \E arch \in Archs :
          target'.v.F[4].e = HydratedPosts(RootLinkage("posts"), arch)

\* C24: a decode into a blog leaves current_post as it was when the linkage
\* has data null or the document has no such key, leaves posts as it was
\* when the document has no such key, and, when it succeeds on a to-many
\* linkage, sets posts to a sequence of exactly the objects its elements
\* hydrate into, in the order of the document, with nothing of what the
\* field held before.
C24_RelationFields ==
  [][HydratesBlog => RelationFieldsEffect]_vars

\* a blog that held post 9 and a current post, decoded from a document
\* whose posts are post 9 and post 7 and whose current_post is null: the
\* blog holds the two posts of the document and the current post it had
C24_Witness ==
  /\ pc = "decoded" /\ op = "none" /\ derr = NoErr /\ doc.kind = "one"
  /\ TargetBefore = OldBlog
  /\ RootLinkage("posts") = RelationshipManyNode(<<PostRef, Post7Inline>>)
  /\ RootLinkage("current_post") = RelationshipOneNode(<<>>)
  /\ Len(target.v.F[4].e) = 2
  /\ target.v.F[4].e[1].v.F[1] = VInt(9)
  /\ target.v.F[4].e[2].v.F[1] = VInt(7)
  /\ target.v.F[5] = OldBlog.v.F[5]

-----------------------------------------------------------------------------
(* The encoder step by step on object graphs.  The objects of a graph live  *)
(* at the addresses 1..MaxObjects and refer to each other by address, 0     *)
(* being the nil pointer, so that a graph can hold a cycle.  Every call of  *)
(* visitModelNode is a frame of the stack of its call of marshalOne, and    *)
(* the included map of a call lives at an address of maps.                  *)

\* type Person struct {
\*   ID   int     `jsonapi:"primary,people"`
\*   Name string  `jsonapi:"attr,name"`
\*   Boss *Person `jsonapi:"relation,boss"`
\*   Peer *Person `jsonapi:"relation,peer"`
\* }
PersonRelations == <<"boss", "peer">>

Person(id, name, boss, peer) == [ID |-> id, Name |-> name, rels |-> <<boss, peer>>]

\* the object graphs of persons called name
Heaps(name) ==
  {[o \in 1..MaxObjects |-> Person(o, name, e[o][1], e[o][2])] :
     e \in [1..MaxObjects -> (0..MaxObjects) \X (0..MaxObjects)]}

\* the depth of recursion at which the run-time ends the program with a
\* stack overflow; no acyclic graph of the model reaches it
StackLimit == MaxObjects + 1

\* a call of marshalOne on the object at address root of heap, not yet begun
NewCall(heap, root) ==
  [kind |-> "marshalOne", heap |-> heap, root |-> root, status |-> "called",
   included |-> 0, stack |-> <<>>, visits |-> 0,
   payload |-> NoPayload, err |-> NoErr]

\* a make that hands every call the same map
makeMap_shared(m) == 1

\* make(map[string]*Node): the address of a new map
makeMap(m) == Cardinality(DOMAIN m) + 1

\* the frame of a call of visitModelNode on the object at address o: the
\* node after the fields before the relations, and the next field
Frame(heap, o) ==
  [obj |-> o, field |-> 1,
   node |-> [NewNode EXCEPT
               !.Type = "people", !.ID = FormatInt(heap[o].ID),
               !.Attributes = [a \in {"name"} |-> VString(heap[o].Name)]]]

\* a test that also takes for nil an object whose visit is under way
IsNilTarget_orVisiting(cs, t) ==
  t = 0 \/ \E i \in 1..Len(cs.stack) : cs.stack[i].obj = t

\* fb.fieldValue.IsNil() for the relation field the frame is at
IsNilTarget(cs, t) == t = 0

\* the target of the relation field the top frame of call cs is at
TopTarget(cs) ==
  cs.heap[cs.stack[Len(cs.stack)].obj].rels[cs.stack[Len(cs.stack)].field]

\* the stack with the relation field of its top frame set to linkage link
\* and the frame moved to its next field
WithRelation(stack, link) ==
  [stack EXCEPT
     ![Len(stack)].node.Relationships =
        MapPut(stack[Len(stack)].node.Relationships,
               PersonRelations[stack[Len(stack)].field], link),
     ![Len(stack)].field = stack[Len(stack)].field + 1]

\* the variables of the calls that are not followed step by step
main == <<pc, op, models, idx, data, included, payload, err, doc, target, derr>>

\* marshalOne up to its call of visitModelNode
marshalOneCall ==
  \E c \in DOMAIN calls :
    /\ calls[c].kind = "marshalOne" /\ calls[c].status = "called"
    /\ maps' = MapPut(maps, makeMap(maps), NoIncluded)
    /\ calls' = [calls EXCEPT
                   ![c].included = makeMap(maps),
                   ![c].status = "visiting",
                   ![c].visits = 1,
                   ![c].stack = <<Frame(calls[c].heap, calls[c].root)>>]
    /\ UNCHANGED main

\* doRelation on a nil pointer: the relation is written with data null
doRelationNil ==
  \E c \in DOMAIN calls :
    /\ calls[c].status = "visiting"
    /\ calls[c].stack[Len(calls[c].stack)].field <= Len(PersonRelations)
    /\ IsNilTarget(calls[c], TopTarget(calls[c]))
    /\ calls' = [calls EXCEPT
                   ![c].stack = WithRelation(calls[c].stack, RelationshipOneNode(<<>>))]
    /\ UNCHANGED <<maps, main>>

\* doRelation on a pointer that is set: visitModelNode is called on its
\* target
doRelationVisit ==
  \E c \in DOMAIN calls :
    /\ calls[c].status = "visiting"
    /\ calls[c].stack[Len(calls[c].stack)].field <= Len(PersonRelations)
    /\ ~IsNilTarget(calls[c], TopTarget(calls[c]))
    /\ Len(calls[c].stack) < StackLimit
    /\ calls' = [calls EXCEPT
                   ![c].stack = Append(calls[c].stack,
                                       Frame(calls[c].heap, TopTarget(calls[c]))),
                   ![c].visits = calls[c].visits + 1]
    /\ UNCHANGED <<maps, main>>

\* the same at the depth the stack cannot grow beyond: the run-time ends
\* the program
stackOverflow ==
  \E c \in DOMAIN calls :
    /\ calls[c].status = "visiting"
    /\ calls[c].stack[Len(calls[c].stack)].field <= Len(PersonRelations)
    /\ ~IsNilTarget(calls[c], TopTarget(calls[c]))
    /\ Len(calls[c].stack) = StackLimit
    /\ calls' = [calls EXCEPT ![c].status = "overflow"]
    /\ UNCHANGED <<maps, main>>

\* visitModelNode returns to doRelation, which puts the node into the
\* included map and a shallow node into the relation
visitReturn ==
  \E c \in DOMAIN calls :
    /\ calls[c].status = "visiting"
    /\ Len(calls[c].stack) > 1
    /\ calls[c].stack[Len(calls[c].stack)].field > Len(PersonRelations)
    /\ \E r \in {appendIncluded(maps[calls[c].included],
                                calls[c].stack[Len(calls[c].stack)].node)} :
         /\ maps' = [maps EXCEPT ![calls[c].included] = r.inc]
         /\ calls' = [calls EXCEPT
              ![c].stack =
                 WithRelation(SubSeq(calls[c].stack, 1, Len(calls[c].stack) - 1),
                              RelationshipOneNode(
                                <<toShallowNode(calls[c].stack[Len(calls[c].stack)].node)>>))]
    /\ UNCHANGED main

\* visitModelNode returns to marshalOne, which returns the payload
marshalOneReturn ==
  \E c \in DOMAIN calls :
    /\ calls[c].status = "visiting"
    /\ Len(calls[c].stack) = 1
    /\ calls[c].stack[1].field > Len(PersonRelations)
    /\ \E vals \in nodeMapValues(maps[calls[c].included]) :
         calls' = [calls EXCEPT
                     ![c].status = "returned",
                     ![c].stack = <<>>,
                     ![c].payload = OnePayload(calls[c].stack[1].node, vals)]
    /\ UNCHANGED <<maps, main>>

\* one call of marshalOne on an object graph
InitVisit ==
  /\ pc = "calls" /\ op = "none" /\ models = VNil /\ idx = 0 /\ data = <<>>
  /\ included = NoIncluded /\ payload = NoPayload /\ err = NoErr
  /\ doc = NoPayload /\ target = VNil /\ derr = NoErr
  /\ maps = NoMaps
  /\ \E heap \in Heaps("a") : calls = [c \in {1} |-> NewCall(heap, 1)]

NextVisit ==
  \/ marshalOneCall
  \/ doRelationNil
  \/ doRelationVisit
  \/ stackOverflow
  \/ visitReturn
  \/ marshalOneReturn

\* the call runs on its goroutine until it returns or the program ends
SpecVisit == InitVisit /\ [][NextVisit]_vars /\ WF_vars(NextVisit)

-----------------------------------------------------------------------------
(* Two calls at once: each is one of the stepwise calls of marshalOne      *)
(* above or a call of UnmarshalPayload, taken in two steps: the included   *)
(* map is built, then the node is hydrated.  The steps of the two calls    *)
(* interleave in every order.                                              *)

\* a call of UnmarshalPayload on document d and model m, not yet begun
NewDecode(d, m) ==
  [kind |-> "UnmarshalPayload", doc |-> d, model |-> m, status |-> "called",
   included |-> 0, err |-> NoErr]

\* the object graphs of the two calls: a person with a boss, with the same
\* person as boss and peer, and a person who is their own boss
PairHeaps(name) ==
  {h \in Heaps(name) :
     /\ h[1].rels \in {<<2, 0>>, <<2, 2>>, <<1, 0>>}
     /\ \A o \in 2..MaxObjects : h[o].rels = <<0, 0>>}

\* the documents of the two calls: a blog whose current post is post 9, with
\* one or the other snapshot of the post in included, or without included
PairDocuments ==
  {BlogDocument("blogs", <<"5">>, Absent, Absent, RelationshipOneNode(<<PostRef>>), inc) :
     inc \in {<<>>, <<IncludedPost>>, <<IncludedPostAgain>>}}

\* the calls a caller can make with objects called name
PairCalls(name) ==
  {NewCall(heap, 1) : heap \in PairHeaps(name)}
  \cup {NewDecode(d, New(TStruct("Blog"))) : d \in PairDocuments}

\* UnmarshalPayload up to its call of unmarshalNode: when the document has
\* included, a map is made and filled
UnmarshalPayloadIncluded ==
  \E c \in DOMAIN calls :
    /\ calls[c].kind = "UnmarshalPayload" /\ calls[c].status = "called"
    /\ IF calls[c].doc.Included # <<>> THEN
         /\ maps' = MapPut(maps, makeMap(maps),
                           includedMap(calls[c].doc.Included, 1, NoIncluded))
         /\ calls' = [calls EXCEPT ![c].included = makeMap(maps),
                                   ![c].status = "hydrating"]
       ELSE
         /\ calls' = [calls EXCEPT ![c].status = "hydrating"]
         /\ UNCHANGED maps
    /\ UNCHANGED main

\* the call of unmarshalNode and the return of UnmarshalPayload
UnmarshalPayloadNode ==
  \E c \in DOMAIN calls :
    /\ calls[c].kind = "UnmarshalPayload" /\ calls[c].status = "hydrating"
    /\ \E arch \in Archs :
         \E r \in {unmarshalNode(calls[c].doc.Data[1], calls[c].model,
                                 IF calls[c].included = 0 THEN NoIncluded
                                 ELSE maps[calls[c].included],
                                 arch)} :
           calls' = [calls EXCEPT ![c].model = r.model, ![c].err = r.err,
                                  ![c].status = "returned"]
    /\ UNCHANGED <<maps, main>>

\* two calls, on objects and documents of their own
InitPair ==
  /\ pc = "calls" /\ op = "none" /\ models = VNil /\ idx = 0 /\ data = <<>>
  /\ included = NoIncluded /\ payload = NoPayload /\ err = NoErr
  /\ doc = NoPayload /\ target = VNil /\ derr = NoErr
  /\ maps = NoMaps
  /\ \E first \in PairCalls("a"), second \in PairCalls("b") :
       calls = [c \in {1, 2} |-> IF c = 1 THEN first ELSE second]

NextPair ==
  \/ marshalOneCall
  \/ doRelationNil
  \/ doRelationVisit
  \/ stackOverflow
  \/ visitReturn
  \/ marshalOneReturn
  \/ UnmarshalPayloadIncluded
  \/ UnmarshalPayloadNode

SpecPair == InitPair /\ [][NextPair]_vars

-----------------------------------------------------------------------------
(* C25 *)

\* the objects the objects of set S refer to
Successors(heap, S) == {heap[o].rels[i] : o \in S, i \in 1..Len(PersonRelations)} \ {0}

RECURSIVE ReachableFrom(_, _)
\* the objects that can be reached from those of S, these included
ReachableFrom(heap, S) ==
  IF Successors(heap, S) \subseteq S THEN S
  ELSE ReachableFrom(heap, S \cup Successors(heap, S))

\* the graph below the object at address root holds a cycle
Cyclic(heap, root) ==
  \E o \in ReachableFrom(heap, {root}) :
    o \in ReachableFrom(heap, Successors(heap, {o}))

RECURSIVE Occurrences(_, _)
\* the relationship occurrences below object o of an acyclic graph, the
\* visit of o itself counted: one per path that leads from o to an object
Occurrences(heap, o) ==
  1 + (IF heap[o].rels[1] = 0 THEN 0 ELSE Occurrences(heap, heap[o].rels[1]))
    + (IF heap[o].rels[2] = 0 THEN 0 ELSE Occurrences(heap, heap[o].rels[2]))

\* the one call of the specification
TheCall == calls[1]

VisitBegun == pc = "calls" /\ TheCall.status \in {"called", "visiting"}

\* C25: a call of marshalOne on a graph without a cycle returns, and by
\* then visitModelNode was called once for every relationship occurrence
\* that can be reached from the root; on a graph with a cycle the call never
\* returns: nothing stops the recursion before the stack is exhausted.
C25_Termination ==
  /\ (VisitBegun /\ ~Cyclic(TheCall.heap, TheCall.root))
        ~> (TheCall.status = "returned")
  /\ [](TheCall.status = "returned" =>
          /\ ~Cyclic(TheCall.heap, TheCall.root)
          /\ TheCall.visits = Occurrences(TheCall.heap, TheCall.root))
  /\ (VisitBegun /\ Cyclic(TheCall.heap, TheCall.root))
        ~> (TheCall.status = "overflow")

\* a person whose boss and peer are the same person without relations: the
\* call returned after three visits, with the person once in included
C25_Witness ==
  /\ pc = "calls" /\ TheCall.status = "returned"
  /\ TheCall.heap[1].rels = <<2, 2>> /\ TheCall.heap[2].rels = <<0, 0>>
  /\ TheCall.visits = 3
  /\ Len(TheCall.payload.Included) = 1

-----------------------------------------------------------------------------
(* C26 *)

RECURSIVE visitPerson(_, _, _, _)
RECURSIVE visitPersonTarget(_, _, _, _, _)
\* what a call of visitModelNode on the object at address o of an acyclic
\* graph, from relation field i on, makes of node and included map when no
\* other call runs
visitPerson(heap, o, i, r) ==
  IF i > Len(PersonRelations) THEN r
  ELSE IF heap[o].rels[i] = 0
  THEN visitPerson(heap, o, i + 1,
                   [r EXCEPT !.node.Relationships =
                      MapPut(r.node.Relationships, PersonRelations[i],
                             RelationshipOneNode(<<>>))])
  ELSE visitPersonTarget(
         visitPerson(heap, heap[o].rels[i], 1,
                     Res(Frame(heap, heap[o].rels[i]).node, r.inc, NoErr)),
         heap, o, i, r)

\* the same once the visit of the target of field i returned t
visitPersonTarget(t, heap, o, i, r) ==
  visitPerson(heap, o, i + 1,
              Res([r.node EXCEPT !.Relationships =
                     MapPut(r.node.Relationships, PersonRelations[i],
                            RelationshipOneNode(<<toShallowNode(t.node)>>))],
                  appendIncluded(t.inc, t.node).inc, NoErr))

\* the payloads marshalOne returns for the root of heap when it runs alone
AloneEncoded(heap, root) ==
  {OnePayload(r.node, vals) :
     r \in {visitPerson(heap, root, 1, Res(Frame(heap, root).node, NoIncluded, NoErr))},
     vals \in nodeMapValues(
                visitPerson(heap, root, 1,
                            Res(Frame(heap, root).node, NoIncluded, NoErr)).inc)}

\* the model and the error UnmarshalPayload leaves for document d and a new
\* blog when it runs alone
AloneDecoded(d) ==
  {unmarshalPayload(d, New(TStruct("Blog")), arch) : arch \in Archs}

\* the calls that made an included map
WithMap == {c \in DOMAIN calls : calls[c].included # 0}

\* C26: of two calls whose steps interleave, each has an included map of
\* its own, and each returns what it returns when it runs alone: the
\* payload of marshalOne, and the model and the error of UnmarshalPayload;
\* this includes the runs where one call begins after the other returned.
C26_CallIsolation ==
  (pc = "calls" /\ DOMAIN calls = {1, 2}) =>
    /\ \A c, d \in WithMap : calls[c].included = calls[d].included => c = d
    /\ \A c \in DOMAIN calls :
         calls[c].status = "returned" =>
           IF calls[c].kind = "marshalOne"
           THEN calls[c].payload \in AloneEncoded(calls[c].heap, calls[c].root)
           ELSE [model |-> calls[c].model, err |-> calls[c].err]
                   \in AloneDecoded(calls[c].doc)

\* two calls of marshalOne have returned, each on a person whose boss has
\* the same type and id in both graphs and another name, and each payload
\* holds the boss of its own graph
C26_Witness ==
  /\ pc = "calls" /\ DOMAIN calls = {1, 2}
  /\ \A c \in {1, 2} :
       /\ calls[c].kind = "marshalOne" /\ calls[c].status = "returned"
       /\ calls[c].heap[1].rels = <<2, 0>>
       /\ Len(calls[c].payload.Included) = 1
       /\ calls[c].payload.Included[1].Type = "people"
       /\ calls[c].payload.Included[1].ID = <<"2">>
  /\ calls[1].payload.Included[1].Attributes["name"] = VString("a")
  /\ calls[2].payload.Included[1].Attributes["name"] = VString("b")


-----------------------------------------------------------------------------
(* C27: referential integrity of the sideloaded output *)

\* the envelope marshalOne or marshalMany built was returned as built
ReturnedSideloaded == Returned /\ op = "MarshalPayload"

\* the nodes of the envelope: those of data and the entries of included
EnvelopeNodes == DataNodes \cup Range(payload.Included)

\* the reference d is the shallow one: type and id and nothing else
IsShallow(d) == d = [NewNode EXCEPT !.Type = d.Type, !.ID = d.ID]

\* the objects reachable from the set S of objects over relation fields
RECURSIVE RelationClosure(_)
RelationClosure(S) ==
  LET T == S \cup UNION {RelationTargets(s) : s \in S}
  IN  IF T = S THEN S ELSE RelationClosure(T)

\* the objects the roots reach through at least one relation
ReachedTargets == RelationClosure(UNION {RelationTargets(r) : r \in StructRoots})

\* the object o has an entry in included
Covered(o) ==
  \E i \in 1..Len(payload.Included) :
     SameIdentity(payload.Included[i], visitModelNode(o, NoIncluded, TRUE).node)

\* C27: in every envelope marshalOne or marshalMany returned, each reference
\* in a linkage of a node of data or of an entry of included is shallow and
\* has an entry of the same type and id in included, and every object the
\* roots reach over relations has an entry in included.
C27_ReferentialIntegrity ==
  ReturnedSideloaded =>
    /\ \A n \in EnvelopeNodes :
         \A d \in LinkageNodes(n) :
            IsShallow(d) /\ IncludedEntries(d) # {}
    /\ \A o \in ReachedTargets : Covered(o)

\* a returned envelope whose root refers to two entities of one linkage and
\* whose included holds an entry that itself refers to another entry
C27_Witness ==
  /\ ReturnedSideloaded
  /\ \E n \in DataNodes :
       \E r \in DOMAIN n.Relationships :
          \E i, j \in 1..Len(n.Relationships[r].data) :
             ~SameIdentity(n.Relationships[r].data[i], n.Relationships[r].data[j])
  /\ \E i \in 1..Len(payload.Included) : LinkageNodes(payload.Included[i]) # {}


-----------------------------------------------------------------------------
(* C28: unset elements of relationship and root sequences *)

\* the relation fields of the object behind v that are sequences holding an
\* element that is nil
NilElementFields(v) ==
  {i \in 1..Len(TypeDefs[v.v.T]) :
     /\ TypeDefs[v.v.T][i].tag # <<>>
     /\ TypeDefs[v.v.T][i].tag[1] = annotationRelation
     /\ TypeDefs[v.v.T][i].ty.kind = "slice"
     /\ VNil \in Range(v.v.F[i].e)}

\* a root, or an object a root reaches over relations, holds a to-many
\* relation with a nil element
NilInLinkage ==
  \E o \in RelationClosure(StructRoots) : NilElementFields(o) # {}

\* the sequence handed to the call holds a nil element
NilRoot == models.k = "slice" /\ VNil \in Range(models.e)

\* C28: a call of Marshal on an accepted input that holds a nil element in a
\* to-many relation or in the root sequence ends with an envelope or an
\* error, never with a fault.
C28_NoFaultOnUnsetElements ==
  (pc = "done" /\ Sideloading /\ (NilInLinkage \/ NilRoot)) => err # Panic


-----------------------------------------------------------------------------
(* C30: determinism of encode *)

\* what another call of Marshal on the same argument can return: one
\* outcome per iteration order of the included map
EncodeAgain ==
  IF models.k = "slice" THEN
    LET r == marshalMany(models.e) IN
    IF r.err # NoErr THEN {Outcome(NoPayload, NoIncluded, r.err)}
    ELSE {MarshalHooks(TypeOfSlice(models), ManyPayload(r.nodes, vals)) :
            vals \in nodeMapValues(r.inc)}
  ELSE MarshalOne(models)

\* the envelopes p and q differ in the order of included at most
SameUpToIncludedOrder(p, q) ==
  /\ [p EXCEPT !.Included = <<>>] = [q EXCEPT !.Included = <<>>]
  /\ Len(p.Included) = Len(q.Included)
  /\ Range(p.Included) = Range(q.Included)

\* a call of MarshalPayload has ended
Encoded == pc = "done" /\ op = "MarshalPayload"

\* the call that ended and any other call on the same argument agree: on
\* the error, and on the envelope but for the order of included
AgreesWithAnyOtherCall ==
  Encoded =>
    /\ \E o \in EncodeAgain : o.err = err /\ o.payload = payload
    /\ \A o \in EncodeAgain :
         o.err = err /\ SameUpToIncludedOrder(o.payload, payload)

====
